---- MODULE Spec2Model ----
(***************************************************************************)
(* Model of the per-vbucket lock-free mutation queue                       *)
(* (secondary/indexer/mutation_queue_atomic.go, atomicMutationQueue).      *)
(*                                                                         *)
(* node[v] is the heap of the nodes of vbucket v's list: a node pointer is *)
(* an index into it and 0 is the nil pointer (the lists of two vbuckets    *)
(* never share a node: every node is allocated by an Enqueue on its        *)
(* vbucket and only ever linked into that vbucket's list).                 *)
(*                                                                         *)
(* One producer goroutine and one consumer goroutine run concurrently.     *)
(* Every action contains at most one access to a location the other        *)
(* goroutine writes and it can observe; accesses to locations only one     *)
(* goroutine touches at the time (a node not yet published by the tail     *)
(* store, a node behind the head, q.free, locals) are merged into the      *)
(* action of the preceding shared access.                                  *)
(***************************************************************************)
EXTENDS Integers, Sequences, FiniteSets, TLC

\* ------------------------------------------------------------------------
\* Bounds of the model
\* ------------------------------------------------------------------------
MaxVbuckets == 1      \* numVbuckets ranges over 0..MaxVbuckets
MaxEnqueues == 3      \* Enqueue calls that pass the range check
MaxSeqno == 2         \* sequence numbers range over 1..MaxSeqno

VARIABLES
    numVbuckets,   \* q.numVbuckets
    head,          \* q.head[vbucket]: pointer to the sentinel node
    tail,          \* q.tail[vbucket]: pointer to the last node
    free,          \* q.free[vbucket]: first node of the free list
    size,          \* q.size[vbucket]
    node,          \* the nodes: node[v][p] = [mutation, next]
    ppc, pvb,      \* producer: position in Enqueue and its vbucket
    cpc, cop, cvb, cm, cseqno,            \* consumer: position and locals
    dequeueCount,  \* local of dequeueUptoSeqno
    datach,        \* "none", "open" or "closed"
    stopReq,       \* the caller is blocked in stopch <- true
    ret,           \* what the step just taken returned to its caller, if anything
    panicked,      \* the process died of a runtime panic
    enq,           \* per vbucket: mutations linked in (tail stored), in order
    deliv,         \* per vbucket: mutations handed to the consumer, in order
    sender,        \* the goroutine of one kvSender command (see below)
    kv,            \* the kvSender's loop and its supervisor (see below)
    sc,            \* a snapshotInfoContainer and its callers (see below)
    cinfo          \* the cluster info cache, its lock and its users (see below)

qvars == <<head, tail, free, size, node>>
pvars == <<ppc, pvb>>
cvars == <<cpc, cop, cvb, cm, cseqno, dequeueCount, datach, stopReq>>
hvars == <<enq, deliv>>
vars == <<numVbuckets, qvars, pvars, cvars, ret, panicked, hvars, sender, kv, sc,
          cinfo>>
\* what no step of the consumer changes, the queue and the histories aside
restc == <<sender, kv, sc, cinfo, numVbuckets, pvars, panicked>>

\* ------------------------------------------------------------------------
\* Values
\* ------------------------------------------------------------------------
\* the nil *MutationKeys
Nil == [id |-> 0, seqno |-> 0]
\* the nil *node
NoNode == 0
\* a freshly allocated node, &node{}
NewNode == [mutation |-> Nil, next |-> NoNode]
\* a *MutationKeys: its identity (its rank among the Enqueues of its
\* vbucket) and its meta.seqno
MutationKeys(i, s) == [id |-> i, seqno |-> s]

Vbuckets == 0 .. (numVbuckets - 1)
\* the vbucket arguments callers try, valid and invalid
VbucketArgs == 0 .. MaxVbuckets
Seqnos == 1 .. MaxSeqno

NoRet == [op |-> "none", vb |-> 0, val |-> Nil, err |-> FALSE]

\* ------------------------------------------------------------------------
\* NewAtomicMutationQueue: one sentinel node per vbucket
\* ------------------------------------------------------------------------
NewAtomicMutationQueue(n) ==
    /\ numVbuckets = n
    /\ node = [v \in Vbuckets |-> <<NewNode>>]
    /\ head = [v \in Vbuckets |-> 1]
    /\ tail = [v \in Vbuckets |-> 1]
    /\ free = [v \in Vbuckets |-> 1]
    /\ size = [v \in Vbuckets |-> 0]
    /\ ppc = "idle" /\ pvb = 0
    /\ cpc = "idle" /\ cop = "none" /\ cvb = 0 /\ cm = Nil
    /\ cseqno = 0 /\ dequeueCount = 0 /\ datach = "none" /\ stopReq = FALSE
    /\ ret = NoRet
    /\ panicked = FALSE
    /\ enq = [v \in Vbuckets |-> <<>>]
    /\ deliv = [v \in Vbuckets |-> <<>>]

\* no kvSender command is running
NoSender == [pc |-> "none"]
\* no kvSender has been started
NoKVSender == [pc |-> "none"]
\* no snapshotInfoContainer has been made
NoContainer == [pc |-> "none"]
\* no command goroutine uses the cluster info cache
NoCache == [pc |-> "none"]

Init ==
    /\ \E n \in 0 .. MaxVbuckets : NewAtomicMutationQueue(n)
    /\ sender = NoSender /\ kv = NoKVSender /\ sc = NoContainer
    /\ cinfo = NoCache

\* ------------------------------------------------------------------------
\* Helpers over the linked list
\* ------------------------------------------------------------------------
\* a dequeue that reads the payload of the head node itself
HeadOwnMutation(v) == node[v][head[v]].mutation

\* head.next.mutation, with head the loaded q.head[v]
NextMutation(v) == node[v][node[v][head[v]].next].mutation

\* the mutations of the nodes after p up to and including t, following next
RECURSIVE ListFrom(_, _, _, _)
ListFrom(v, p, t, fuel) ==
    IF p = t \/ fuel = 0 \/ p = NoNode \/ node[v][p].next = NoNode THEN <<>>
    ELSE <<node[v][node[v][p].next].mutation>>
             \o ListFrom(v, node[v][p].next, t, fuel - 1)

\* what the queue of vbucket v holds: the nodes after head up to tail
Contents(v) == ListFrom(v, head[v], tail[v], Len(node[v]))

\* Enqueue calls that have passed the range check so far
TotalEnqueues ==
    LET RECURSIVE Sum(_)
        Sum(n) == IF n = 0 THEN 0 ELSE Len(enq[n - 1]) + Sum(n - 1)
    IN  Sum(numVbuckets) + (IF ppc = "store" THEN 1 ELSE 0)

\* ------------------------------------------------------------------------
\* Enqueue (producer)
\* ------------------------------------------------------------------------
\* vbucket < 0 || vbucket > Vbucket(q.numVbuckets)-1.  Vbucket is an
\* unsigned integer type: vbucket < 0 never holds, and for numVbuckets = 0
\* the subtraction wraps to the largest Vbucket, which no vbucket exceeds.
OutOfRange(v) ==
    IF numVbuckets = 0 THEN FALSE ELSE v > numVbuckets - 1

\* a free-list test on the free node's link instead of the head
FreeListHasNext(v) == node[v][free[v]].next # NoNode

\* a free-list test against the tail instead of the head
FreeListUpToTail(v) == free[v] # tail[v]

\* popFreeList's test: the free list is non-empty
FreeListNonEmpty(v) == free[v] # head[v]

\* Enqueue up to tail.next = n: range check, allocNode (popFreeList loads
\* q.head), fill in the node, hang it behind the tail node.
\* Sequence numbers of one vbucket never decrease (the feed's order).
Enqueue(s, v) ==
    /\ ~panicked /\ ppc = "idle"
    /\ ~OutOfRange(v)
    /\ TotalEnqueues < MaxEnqueues
    /\ IF v \notin Vbuckets
       THEN \* q.free[vbucket]: index out of range
            /\ panicked' = TRUE
            /\ UNCHANGED <<qvars, pvars>>
       ELSE /\ s >= node[v][tail[v]].mutation.seqno
            /\ LET m == MutationKeys(Len(enq[v]) + 1, s)
                   n == IF FreeListNonEmpty(v) THEN free[v]
                        ELSE Len(node[v]) + 1
                   filled == [mutation |-> m, next |-> NoNode]
                   nodes == IF FreeListNonEmpty(v)
                            THEN [node[v] EXCEPT ![n] = filled]
                            ELSE Append(node[v], filled)
               IN  /\ free' = IF FreeListNonEmpty(v)
                              THEN [free EXCEPT ![v] = node[v][free[v]].next]
                              ELSE free
                   /\ node' = [node EXCEPT
                                  ![v] = [nodes EXCEPT ![tail[v]].next = n]]
            /\ pvb' = v /\ ppc' = "store"
            /\ UNCHANGED <<head, tail, size, panicked>>
    /\ ret' = NoRet
    /\ UNCHANGED <<sender, kv, sc, cinfo, numVbuckets, cvars, hvars>>

\* Enqueue with a vbucket the range check rejects
EnqueueOutOfRange(v) ==
    /\ ~panicked /\ ppc = "idle"
    /\ OutOfRange(v)
    /\ ret' = [op |-> "Enqueue", vb |-> v, val |-> Nil, err |-> TRUE]
    /\ UNCHANGED <<sender, kv, sc, cinfo, numVbuckets, qvars, pvars, cvars, panicked, hvars>>

\* an Enqueue that links its node behind the tail and leaves q.tail alone
EnqueueKeepsTail ==
    /\ ~panicked /\ ppc = "store"
    /\ enq' = [enq EXCEPT
                  ![pvb] = Append(@, node[pvb][node[pvb][tail[pvb]].next].mutation)]
    /\ ppc' = "size"
    /\ ret' = NoRet
    /\ UNCHANGED <<sender, kv, sc, cinfo, numVbuckets, qvars, pvb, cvars, panicked,
                   deliv>>

\* store(q.tail, tail.next), with tail the q.tail loaded before the link
EnqueueStoreTail ==
    /\ ~panicked /\ ppc = "store"
    /\ tail' = [tail EXCEPT ![pvb] = node[pvb][tail[pvb]].next]
    /\ enq' = [enq EXCEPT
                  ![pvb] = Append(@, node[pvb][node[pvb][tail[pvb]].next].mutation)]
    /\ ppc' = "size"
    /\ ret' = NoRet
    /\ UNCHANGED <<sender, kv, sc, cinfo, numVbuckets, head, free, size, node, pvb, cvars, panicked,
                   deliv>>

\* the size after Enqueue's atomic.AddInt64(&q.size, 1)
SizeAfterEnqueue(n) == n + 1

\* an Enqueue whose size counter is one for all the vbuckets
EnqueueAddsToEverySize ==
    /\ ~panicked /\ ppc = "size"
    /\ size' = [v \in Vbuckets |-> SizeAfterEnqueue(size[v])]
    /\ ret' = [op |-> "Enqueue", vb |-> pvb, val |-> Nil, err |-> FALSE]
    /\ ppc' = "idle" /\ pvb' = 0
    /\ UNCHANGED <<sender, kv, sc, cinfo, numVbuckets, head, tail, free, node, cvars, panicked, hvars>>

\* add(q.size, 1); return nil
EnqueueAddSize ==
    /\ ~panicked /\ ppc = "size"
    /\ size' = [size EXCEPT ![pvb] = SizeAfterEnqueue(@)]
    /\ ret' = [op |-> "Enqueue", vb |-> pvb, val |-> Nil, err |-> FALSE]
    /\ ppc' = "idle" /\ pvb' = 0
    /\ UNCHANGED <<sender, kv, sc, cinfo, numVbuckets, head, tail, free, node, cvars, panicked, hvars>>

\* ------------------------------------------------------------------------
\* DequeueSingleElement (consumer), called directly or from dequeue()
\* ------------------------------------------------------------------------
\* load(q.head) != load(q.tail): the queue is nonempty
NonEmpty(v) == head[v] # tail[v]

\* a dequeue that forgets to decrement the size
SizeNotDecremented(n) == n

\* the size after a dequeue's atomic.AddInt64(&q.size, -1)
SizeAfterDequeue(n) == n - 1

\* the consumer goroutine is gone or back in its caller: its locals are dead
ConsumerReturns(ch) ==
    /\ cpc' = "idle" /\ cop' = "none" /\ cvb' = 0
    /\ cm' = Nil /\ cseqno' = 0 /\ dequeueCount' = 0 /\ stopReq' = FALSE
    /\ datach' = ch

\* the call itself
DequeueSingleElement(v) ==
    /\ ~panicked /\ cpc = "idle"
    /\ v \in Vbuckets
    /\ cpc' = "d_check" /\ cop' = "single" /\ cvb' = v
    /\ datach' = "none"
    /\ ret' = NoRet
    /\ UNCHANGED <<restc, qvars, cm, cseqno, dequeueCount, stopReq, hvars>>

\* the emptiness test and, on a nonempty queue, m := head.next.mutation;
\* on an empty queue DequeueSingleElement returns nil, which ends the call
\* or, inside dequeue(), the current poll
DequeueCheck ==
    /\ ~panicked /\ cpc = "d_check"
    /\ IF NonEmpty(cvb)
       THEN IF node[cvb][head[cvb]].next = NoNode
            THEN \* nil pointer dereference
                 /\ panicked' = TRUE /\ ret' = NoRet
                 /\ UNCHANGED cvars
            ELSE /\ cm' = NextMutation(cvb)
                 /\ cpc' = "d_store" /\ ret' = NoRet
                 /\ UNCHANGED <<cop, cvb, cseqno, dequeueCount, datach,
                                stopReq, panicked>>
       ELSE IF cop = "single"
            THEN /\ ConsumerReturns("none")
                 /\ ret' = [op |-> "DequeueSingleElement", vb |-> cvb,
                            val |-> Nil, err |-> FALSE]
                 /\ panicked' = panicked
            ELSE /\ cpc' = "q_select" /\ ret' = NoRet
                 /\ UNCHANGED <<cop, cvb, cm, cseqno, dequeueCount,
                                datach, stopReq, panicked>>
    /\ UNCHANGED <<sender, kv, sc, cinfo, numVbuckets, pvars, qvars, hvars>>

\* store(q.head, head.next)
DequeueStoreHead ==
    /\ ~panicked /\ cpc = "d_store"
    /\ head' = [head EXCEPT ![cvb] = node[cvb][head[cvb]].next]
    /\ cpc' = "d_size"
    /\ ret' = NoRet
    /\ UNCHANGED <<restc, tail, free, size, node, cop, cvb, cm, cseqno,
                   dequeueCount, datach, stopReq, hvars>>

\* add(q.size, -1); return m
DequeueAddSize ==
    /\ ~panicked /\ cpc = "d_size"
    /\ size' = [size EXCEPT ![cvb] = SizeAfterDequeue(@)]
    /\ IF cop = "single"
       THEN /\ ConsumerReturns("none")
            /\ ret' = [op |-> "DequeueSingleElement", vb |-> cvb,
                       val |-> cm, err |-> FALSE]
            /\ deliv' = [deliv EXCEPT ![cvb] = Append(@, cm)]
       ELSE /\ cpc' = "q_send" /\ ret' = NoRet /\ deliv' = deliv
            /\ UNCHANGED <<cop, cvb, cm, cseqno, dequeueCount, datach,
                           stopReq>>
    /\ UNCHANGED <<restc, head, tail, free, node, enq>>

\* ------------------------------------------------------------------------
\* Dequeue: the polling goroutine, its data channel and its stop channel
\* ------------------------------------------------------------------------
Dequeue(v) ==
    /\ ~panicked /\ cpc = "idle"
    /\ v \in Vbuckets
    /\ cpc' = "q_select" /\ cop' = "stream" /\ cvb' = v
    /\ datach' = "open"
    /\ ret' = NoRet
    /\ UNCHANGED <<restc, qvars, cm, cseqno, dequeueCount, stopReq, hvars>>

\* the caller sends on stopch and blocks until the goroutine takes it
StopDequeue ==
    /\ ~panicked /\ cop = "stream" /\ ~stopReq
    /\ stopReq' = TRUE
    /\ ret' = NoRet
    /\ UNCHANGED <<restc, qvars, cpc, cop, cvb, cm, cseqno, dequeueCount,
                   datach, hvars>>

\* select, case <-ticker.C: q.dequeue(vbucket, datach)
DequeueTick ==
    /\ ~panicked /\ cpc = "q_select"
    /\ cpc' = "d_check"
    /\ ret' = NoRet
    /\ UNCHANGED <<restc, qvars, cop, cvb, cm, cseqno, dequeueCount,
                   datach, stopReq, hvars>>

\* select, case <-stopch: ticker.Stop(); close(datach); return
DequeueStop ==
    /\ ~panicked /\ cpc = "q_select" /\ stopReq
    /\ ConsumerReturns("closed")
    /\ ret' = NoRet
    /\ UNCHANGED <<restc, qvars, hvars>>

\* datach <- m, taken by the receiver
DequeueSend ==
    /\ ~panicked /\ cpc = "q_send"
    /\ deliv' = [deliv EXCEPT ![cvb] = Append(@, cm)]
    /\ cpc' = "d_check" /\ cm' = Nil
    /\ ret' = NoRet
    /\ UNCHANGED <<restc, qvars, cop, cvb, cseqno, dequeueCount,
                   datach, stopReq, enq>>

\* ------------------------------------------------------------------------
\* DequeueUptoSeqno: the polling goroutine dequeueUptoSeqno
\* ------------------------------------------------------------------------
\* if seqno >= m.meta.seqno: the mutation is dequeued and sent
UptoTakes(seqno, m) == seqno >= m.seqno

\* if seqno <= m.meta.seqno: the seqno is reached, close the channel
UptoReached(seqno, m) == seqno <= m.seqno

\* a poller that never gives up on an empty queue
UptoNeverGivesUp(count) == FALSE

\* if dequeueCount == 0, after the inner loop has found the queue empty
UptoGivesUp(count) == count = 0

DequeueUptoSeqno(v, seqno) ==
    /\ ~panicked /\ cpc = "idle"
    /\ v \in Vbuckets
    /\ cpc' = "u_tick" /\ cop' = "upto" /\ cvb' = v /\ cseqno' = seqno
    /\ dequeueCount' = 0 /\ datach' = "open"
    /\ ret' = NoRet
    /\ UNCHANGED <<restc, qvars, cm, stopReq, hvars>>

\* for _ = range ticker.C
UptoTick ==
    /\ ~panicked /\ cpc = "u_tick"
    /\ cpc' = "u_check"
    /\ ret' = NoRet
    /\ UNCHANGED <<restc, qvars, cop, cvb, cm, cseqno, dequeueCount,
                   datach, stopReq, hvars>>

\* the inner loop's test; on a nonempty queue m := head.next.mutation and
\* the first test, and for a mutation that is not taken the second test; on
\* an empty queue the test after the inner loop
UptoCheck ==
    /\ ~panicked /\ cpc = "u_check"
    /\ IF NonEmpty(cvb)
       THEN IF node[cvb][head[cvb]].next = NoNode
            THEN \* nil pointer dereference
                 /\ panicked' = TRUE
                 /\ UNCHANGED cvars
            ELSE /\ panicked' = panicked
                 /\ IF UptoTakes(cseqno, NextMutation(cvb))
                    THEN /\ cm' = NextMutation(cvb)
                         /\ cpc' = "u_store"
                         /\ UNCHANGED <<cop, cvb, cseqno, dequeueCount,
                                        datach, stopReq>>
                    ELSE IF UptoReached(cseqno, NextMutation(cvb))
                         THEN ConsumerReturns("closed")
                         ELSE UNCHANGED cvars
       ELSE /\ panicked' = panicked
            /\ IF UptoGivesUp(dequeueCount)
               THEN ConsumerReturns("closed")
               ELSE /\ cpc' = "u_tick"
                    /\ UNCHANGED <<cop, cvb, cm, cseqno, dequeueCount,
                                   datach, stopReq>>
    /\ ret' = NoRet
    /\ UNCHANGED <<sender, kv, sc, cinfo, numVbuckets, pvars, qvars, hvars>>

\* store(q.head, head.next)
UptoStoreHead ==
    /\ ~panicked /\ cpc = "u_store"
    /\ head' = [head EXCEPT ![cvb] = node[cvb][head[cvb]].next]
    /\ cpc' = "u_size"
    /\ ret' = NoRet
    /\ UNCHANGED <<restc, tail, free, size, node, cop, cvb, cm, cseqno,
                   dequeueCount, datach, stopReq, hvars>>

\* add(q.size, -1)
UptoAddSize ==
    /\ ~panicked /\ cpc = "u_size"
    /\ size' = [size EXCEPT ![cvb] = SizeAfterDequeue(@)]
    /\ cpc' = "u_send"
    /\ ret' = NoRet
    /\ UNCHANGED <<restc, head, tail, free, node, cop, cvb, cm, cseqno,
                   dequeueCount, datach, stopReq, hvars>>

\* datach <- m, taken by the receiver; dequeueCount++; then the second test
UptoSend ==
    /\ ~panicked /\ cpc = "u_send"
    /\ deliv' = [deliv EXCEPT ![cvb] = Append(@, cm)]
    /\ IF UptoReached(cseqno, cm)
       THEN ConsumerReturns("closed")
       ELSE /\ cpc' = "u_check" /\ cm' = Nil
            /\ dequeueCount' = dequeueCount + 1
            /\ UNCHANGED <<cop, cvb, cseqno, datach, stopReq>>
    /\ ret' = NoRet
    /\ UNCHANGED <<restc, qvars, enq>>

\* ------------------------------------------------------------------------
\* PeekTail, PeekHead, GetSize, GetNumVbuckets
\* ------------------------------------------------------------------------
\* a PeekTail that reads the node at the head
TailFromHead(v) == node[v][head[v]].mutation

\* what PeekTail returns on a nonempty queue: tail.mutation
TailMutation(v) == node[v][tail[v]].mutation

\* what PeekHead returns on a nonempty queue: head.mutation
HeadMutation(v) == node[v][head[v]].mutation

\* the peeks are calls of the reader, made between its dequeues
PeekTail(v) ==
    /\ ~panicked /\ cpc = "idle"
    /\ v \in Vbuckets
    /\ ret' = [op |-> "PeekTail", vb |-> v, err |-> FALSE,
               val |-> IF NonEmpty(v) THEN TailMutation(v) ELSE Nil]
    /\ UNCHANGED <<sender, kv, sc, cinfo, numVbuckets, qvars, pvars, cvars, panicked, hvars>>

PeekHead(v) ==
    /\ ~panicked /\ cpc = "idle"
    /\ v \in Vbuckets
    /\ ret' = [op |-> "PeekHead", vb |-> v, err |-> FALSE,
               val |-> IF NonEmpty(v) THEN HeadMutation(v) ELSE Nil]
    /\ UNCHANGED <<sender, kv, sc, cinfo, numVbuckets, qvars, pvars, cvars, panicked, hvars>>

GetSize(v) == size[v]

GetNumVbuckets == numVbuckets

\* ------------------------------------------------------------------------
\* The specification
\* ------------------------------------------------------------------------
Producer ==
    \/ \E s \in Seqnos, v \in VbucketArgs : Enqueue(s, v)
    \/ \E v \in VbucketArgs : EnqueueOutOfRange(v)
    \/ EnqueueStoreTail
    \/ EnqueueAddSize

Consumer ==
    \/ \E v \in VbucketArgs : DequeueSingleElement(v)
    \/ DequeueCheck
    \/ DequeueStoreHead
    \/ DequeueAddSize
    \/ \E v \in VbucketArgs : Dequeue(v)
    \/ StopDequeue
    \/ DequeueTick
    \/ DequeueStop
    \/ DequeueSend
    \/ \E v \in VbucketArgs, s \in Seqnos : DequeueUptoSeqno(v, s)
    \/ UptoTick
    \/ UptoCheck
    \/ UptoStoreHead
    \/ UptoAddSize
    \/ UptoSend

Peek ==
    \/ \E v \in VbucketArgs : PeekTail(v)
    \/ \E v \in VbucketArgs : PeekHead(v)

Next == Producer \/ Consumer \/ Peek

Spec == Init /\ [][Next]_vars

\* The poller of DequeueUptoSeqno alone on one vbucket, with a receiver that
\* takes what is sent and a ticker that keeps ticking: the goroutine's steps
\* are weakly fair.  The producer is under no obligation to enqueue.
UptoPoll ==
    UptoTick \/ UptoCheck \/ UptoStoreHead \/ UptoAddSize \/ UptoSend

LiveInit == Init /\ numVbuckets = 1

LiveNext == Producer \/ Consumer

FairSpec == LiveInit /\ [][LiveNext]_vars /\ WF_vars(UptoPoll)

\* ------------------------------------------------------------------------
\* Vocabulary of the properties
\* ------------------------------------------------------------------------
IsPrefix(a, b) == Len(a) <= Len(b) /\ \A i \in 1 .. Len(a) : a[i] = b[i]

\* the mutation the consumer has unlinked but not yet handed over
InHand(v) ==
    IF cvb = v /\ cpc \in {"d_size", "q_send", "u_size", "u_send"}
    THEN <<cm>> ELSE <<>>

\* Enqueue calls on v that have passed the range check
Started(v) ==
    Len(enq[v]) + (IF pvb = v /\ ppc = "store" THEN 1 ELSE 0)

\* neither an Enqueue nor a dequeue is part-way through
NoOperationInFlight == ppc = "idle" /\ cpc \in {"idle", "q_select", "u_tick"}

\* some node has been through the free list
Recycled == \E v \in Vbuckets : Len(node[v]) - 1 < Started(v)

\* this step closes the channel of a DequeueUptoSeqno
UptoCloses == cop = "upto" /\ datach = "open" /\ datach' = "closed"

\* ------------------------------------------------------------------------
\* C1
\* ------------------------------------------------------------------------
\* C1: under every interleaving of one producer and one consumer, the
\* mutations linked into a vbucket's queue are exactly those delivered, then
\* the one in the consumer's hand, then those still queued: each of them is
\* in exactly one of the three places, so none is delivered twice or lost.
NoDoubleDeliveryNoLoss ==
    \A v \in Vbuckets :
        /\ enq[v] = deliv[v] \o InHand(v) \o Contents(v)
        /\ \A i, j \in 1 .. Len(deliv[v]) :
               deliv[v][i] = deliv[v][j] => i = j

\* both goroutines are in the middle of an operation on the same vbucket,
\* after a delivery and with a recycled node in the list
WitnessC1 ==
    \E v \in Vbuckets :
        /\ ppc = "store" /\ pvb = v
        /\ cpc \in {"d_store", "u_store"} /\ cvb = v
        /\ Len(deliv[v]) >= 1 /\ Recycled

\* ------------------------------------------------------------------------
\* C2
\* ------------------------------------------------------------------------
\* C2: what has been dequeued from a vbucket is a prefix of what was
\* enqueued on it, every mutation DequeueSingleElement returns is the next
\* one in enqueue order, and it returns nil only when every enqueued
\* mutation has been returned.
FIFOPerShard ==
    /\ \A v \in Vbuckets : IsPrefix(deliv[v] \o InHand(v), enq[v])
    /\ ret.op = "DequeueSingleElement" =>
           IF ret.val = Nil
           THEN deliv[ret.vb] = enq[ret.vb]
           ELSE /\ Len(deliv[ret.vb]) >= 1
                /\ ret.val = enq[ret.vb][Len(deliv[ret.vb])]

\* the third mutation of a vbucket is returned from a recycled node
WitnessC2 ==
    /\ ret.op = "DequeueSingleElement" /\ ret.val # Nil
    /\ Len(deliv[ret.vb]) = 3 /\ Recycled

\* ------------------------------------------------------------------------
\* C3
\* ------------------------------------------------------------------------
\* C3: when DequeueUptoSeqno(v, seqno) closes its channel, every queued
\* mutation with a sequence number <= seqno has been delivered: none is
\* left in the queue, also not a second one carrying seqno itself.
UptoDeliversAllUpToSeqno ==
    [][UptoCloses =>
          \A i \in 1 .. Len(Contents(cvb)) : Contents(cvb)[i].seqno > cseqno]_vars

\* ------------------------------------------------------------------------
\* C4
\* ------------------------------------------------------------------------
\* C4: DequeueUptoSeqno(v, seqno) never unlinks a mutation with a sequence
\* number > seqno, and when it closes its channel the first queued mutation
\* with a sequence number > seqno, if there is one, is the next element of
\* the queue and GetSize still counts it.
UptoLeavesGreaterAtHead ==
    [][/\ cop = "upto" /\ InHand(cvb) # <<>> => cm.seqno <= cseqno
       /\ UptoCloses /\ ppc = "idle" =>
             /\ GetSize(cvb) = Len(Contents(cvb))
             /\ (\E i \in 1 .. Len(Contents(cvb)) :
                     Contents(cvb)[i].seqno > cseqno)
                  => Contents(cvb)[1].seqno > cseqno]_vars

\* the part of C4 that the code keeps: nothing beyond seqno is ever unlinked
\* or delivered by DequeueUptoSeqno
UptoNeverTakesBeyondSeqno ==
    cop = "upto" /\ InHand(cvb) # <<>> => cm.seqno <= cseqno

\* ------------------------------------------------------------------------
\* C5
\* ------------------------------------------------------------------------
\* C5 as stated: the channel of every DequeueUptoSeqno is eventually closed.
UptoEventuallyCloses == (cop = "upto") ~> (datach = "closed")

\* the poller waits for the next tick after a poll that found the queue
\* empty, having delivered something earlier in this call
UptoKeepsPolling ==
    cop = "upto" /\ cpc = "u_tick" /\ dequeueCount > 0 /\ ~NonEmpty(cvb)

\* C5, amended: every DequeueUptoSeqno eventually either closes its channel
\* (a mutation with sequence number >= seqno was seen, or the queue was
\* found empty before this call delivered anything) or, having delivered
\* something, finds the queue empty and goes on polling with the channel
\* open.
UptoClosesOrKeepsPolling ==
    (cop = "upto") ~> (datach = "closed" \/ UptoKeepsPolling)

\* a call that delivered a mutation below its seqno found the queue empty
\* and polls on, with no Enqueue under way
WitnessC5 ==
    /\ UptoKeepsPolling /\ ppc = "idle"
    /\ Len(deliv[cvb]) >= 1 /\ deliv[cvb][Len(deliv[cvb])].seqno < cseqno

\* ------------------------------------------------------------------------
\* C6
\* ------------------------------------------------------------------------
\* C6: PeekHead returns the mutation at the head of the queue, the one the
\* next DequeueSingleElement returns, and nil on an empty queue.
PeekHeadReturnsNext ==
    ret.op = "PeekHead" /\ ppc = "idle" =>
        ret.val = IF Contents(ret.vb) = <<>> THEN Nil
                  ELSE Head(Contents(ret.vb))

\* ------------------------------------------------------------------------
\* C7
\* ------------------------------------------------------------------------
\* C7: PeekTail returns the most recently enqueued mutation of the vbucket
\* when the queue is non-empty and nil when it is empty, and neither peek
\* changes head, tail, free list, size or the nodes of any queue.
PeekTailReturnsLast ==
    /\ [](ret.op = "PeekTail" =>
              ret.val = IF Contents(ret.vb) = <<>> THEN Nil
                        ELSE enq[ret.vb][Len(enq[ret.vb])])
    /\ [][(\E v \in Vbuckets : PeekTail(v) \/ PeekHead(v))
              => UNCHANGED <<qvars, hvars>>]_vars

\* PeekTail on a queue of two, after a dequeue and the reuse of a node, while
\* the producer is idle
WitnessC7 ==
    /\ ret.op = "PeekTail" /\ ret.val # Nil /\ ppc = "idle"
    /\ Len(Contents(ret.vb)) = 2 /\ Len(deliv[ret.vb]) = 1 /\ Recycled

\* ------------------------------------------------------------------------
\* C8
\* ------------------------------------------------------------------------
\* C8: with no operation in flight, GetSize of a vbucket is the number of
\* enqueues minus the number of dequeues on it, and it is 0 exactly when
\* head equals tail.
SizeIsEnqueuesMinusDequeues ==
    NoOperationInFlight =>
        \A v \in Vbuckets :
            /\ GetSize(v) = Len(enq[v]) - Len(deliv[v])
            /\ GetSize(v) = 0 <=> head[v] = tail[v]

\* three enqueues and two dequeues through the polling dequeue, one left
WitnessC8 ==
    \E v \in Vbuckets :
        /\ NoOperationInFlight /\ cpc = "u_tick" /\ cvb = v
        /\ Len(enq[v]) = 3 /\ Len(deliv[v]) = 2 /\ GetSize(v) = 1

\* ------------------------------------------------------------------------
\* C9
\* ------------------------------------------------------------------------
\* C9: while producer and consumer run concurrently, GetSize is the number
\* of live entries of some serialization of the operations issued so far: it
\* is never negative and never more than the number of enqueues started.
SizeWithinSerialization ==
    \A v \in Vbuckets : GetSize(v) >= 0 /\ GetSize(v) <= Started(v)

\* ------------------------------------------------------------------------
\* C10
\* ------------------------------------------------------------------------
\* C10: an Enqueue with a vbucket outside [0, numVbuckets) returns the
\* out-of-range error and changes nothing, whatever numVbuckets is; an
\* Enqueue that returns nil was for a vbucket inside the range and has
\* appended its mutation at that vbucket's tail.
EnqueueChecksRange ==
    /\ [][\A v \in VbucketArgs :
              v \notin Vbuckets
                  /\ (EnqueueOutOfRange(v) \/ \E s \in Seqnos : Enqueue(s, v))
              => /\ ret' = [op |-> "Enqueue", vb |-> v, val |-> Nil,
                            err |-> TRUE]
                 /\ ~panicked'
                 /\ UNCHANGED <<qvars, hvars>>]_vars
    /\ [](ret.op = "Enqueue" /\ ~ret.err =>
              /\ ret.vb \in Vbuckets
              /\ Len(enq[ret.vb]) >= 1
              /\ enq[ret.vb][Len(enq[ret.vb])].id = Len(enq[ret.vb]))

\* ------------------------------------------------------------------------
\* Dequeue under a feed that does not stop.  The histories enq and deliv
\* are not kept here (they would grow without bound): the producer's and the
\* receiver's steps are those of Enqueue and of dequeue() without the
\* bookkeeping, and the producer holds back while MaxEnqueues mutations are
\* queued.
\* ------------------------------------------------------------------------
\* Enqueue up to tail.next = n, as in Enqueue(s, v)
FeedEnqueue(s, v) ==
    /\ ~panicked /\ ppc = "idle"
    /\ ~OutOfRange(v) /\ v \in Vbuckets
    /\ Len(Contents(v)) < MaxEnqueues
    /\ s >= node[v][tail[v]].mutation.seqno
    /\ LET m == MutationKeys(1, s)
           n == IF FreeListNonEmpty(v) THEN free[v] ELSE Len(node[v]) + 1
           filled == [mutation |-> m, next |-> NoNode]
           nodes == IF FreeListNonEmpty(v)
                    THEN [node[v] EXCEPT ![n] = filled]
                    ELSE Append(node[v], filled)
       IN  /\ free' = IF FreeListNonEmpty(v)
                      THEN [free EXCEPT ![v] = node[v][free[v]].next]
                      ELSE free
           /\ node' = [node EXCEPT ![v] = [nodes EXCEPT ![tail[v]].next = n]]
    /\ pvb' = v /\ ppc' = "store"
    /\ ret' = NoRet
    /\ UNCHANGED <<sender, kv, sc, cinfo, numVbuckets, head, tail, size, cvars, panicked, hvars>>

\* store(q.tail, tail.next)
FeedStoreTail ==
    /\ ~panicked /\ ppc = "store"
    /\ tail' = [tail EXCEPT ![pvb] = node[pvb][tail[pvb]].next]
    /\ ppc' = "size"
    /\ ret' = NoRet
    /\ UNCHANGED <<sender, kv, sc, cinfo, numVbuckets, head, free, size, node, pvb, cvars, panicked,
                   hvars>>

\* datach <- m, taken by the receiver
StreamSend ==
    /\ ~panicked /\ cpc = "q_send"
    /\ cpc' = "d_check" /\ cm' = Nil
    /\ ret' = NoRet
    /\ UNCHANGED <<restc, qvars, cop, cvb, cseqno, dequeueCount,
                   datach, stopReq, hvars>>

\* the goroutine of Dequeue: what it does when the ticker ticks and the
\* receiver takes what is sent
StreamPoll ==
    DequeueTick \/ DequeueCheck \/ DequeueStoreHead \/ DequeueAddSize
        \/ StreamSend

StreamNext ==
    \/ \E s \in Seqnos, v \in VbucketArgs : FeedEnqueue(s, v)
    \/ FeedStoreTail
    \/ EnqueueAddSize
    \/ \E v \in VbucketArgs : Dequeue(v)
    \/ StopDequeue
    \/ DequeueStop
    \/ StreamPoll

\* The goroutine keeps running and the receiver keeps draining (weak
\* fairness of its steps); a select with both the ticker and stopch ready
\* picks either, so a stop that is ready at every select is taken at some
\* select (strong fairness of DequeueStop).  Nothing is asked of the
\* producer.
StreamSpec ==
    LiveInit /\ [][StreamNext]_vars /\ WF_vars(StreamPoll)
        /\ SF_vars(DequeueStop)

\* ------------------------------------------------------------------------
\* C11
\* ------------------------------------------------------------------------
\* this step is the goroutine of Dequeue accepting the stop signal
StopAccepted == cop = "stream" /\ datach = "open" /\ datach' = "closed"

\* C11 (delivery and stop, the part the code keeps): what Dequeue delivers
\* is a prefix of what was enqueued; the step that accepts the stop closes
\* the channel with nothing in the goroutine's hand, every mutation not
\* delivered still queued in its order; nothing is delivered on a closed
\* channel.
StopLeavesUndeliveredQueued ==
    /\ [](\A v \in Vbuckets : IsPrefix(deliv[v], enq[v]))
    /\ [][StopAccepted =>
              /\ cpc' = "idle" /\ InHand(cvb)' = <<>>
              /\ enq'[cvb] = deliv'[cvb] \o Contents(cvb)'
              /\ deliv' = deliv]_vars
    /\ [][datach = "closed" /\ datach' = "closed" => deliv' = deliv]_vars

\* C11: once the caller has sent the stop signal, the goroutine of Dequeue
\* eventually accepts it and closes the data channel, as long as the
\* receiver keeps draining the channel.
StopEventuallyAccepted == stopReq ~> (datach = "closed")

\* ------------------------------------------------------------------------
\* A queue of NumShards vbuckets, with the producer on one vbucket while the
\* consumer is on the same or on another one
\* ------------------------------------------------------------------------
NumShards == 2
MaxShardEnqueues == 2

ShardInit ==
    /\ NewAtomicMutationQueue(NumShards)
    /\ sender = NoSender /\ kv = NoKVSender /\ sc = NoContainer
    /\ cinfo = NoCache

\* sequence numbers play no part here: every mutation carries the first one
ShardEnqueue(v) == TotalEnqueues < MaxShardEnqueues /\ Enqueue(1, v)

ShardNext ==
    \/ \E v \in Vbuckets : ShardEnqueue(v)
    \/ EnqueueStoreTail
    \/ EnqueueAddSize
    \/ \E v \in Vbuckets : DequeueSingleElement(v)
    \/ DequeueCheck
    \/ DequeueStoreHead
    \/ DequeueAddSize
    \/ \E v \in Vbuckets : Dequeue(v)
    \/ StopDequeue
    \/ DequeueTick
    \/ DequeueStop
    \/ DequeueSend
    \/ \E v \in Vbuckets, s \in Seqnos : DequeueUptoSeqno(v, s)
    \/ UptoPoll
    \/ \E v \in Vbuckets : PeekTail(v)
    \/ \E v \in Vbuckets : PeekHead(v)

ShardSpec == ShardInit /\ [][ShardNext]_vars

\* ------------------------------------------------------------------------
\* C12
\* ------------------------------------------------------------------------
\* everything the queue keeps for vbucket b
ShardState(b) == <<head[b], tail[b], free[b], size[b], node[b], Contents(b)>>

\* this step is a step of an operation on vbucket a
StepOn(a) ==
    \/ \E s \in Seqnos : Enqueue(s, a)
    \/ pvb = a /\ (EnqueueStoreTail \/ EnqueueAddSize)
    \/ DequeueSingleElement(a) \/ Dequeue(a)
    \/ \E s \in Seqnos : DequeueUptoSeqno(a, s)
    \/ cvb = a /\ \/ DequeueCheck \/ DequeueStoreHead \/ DequeueAddSize
                  \/ StopDequeue \/ DequeueTick \/ DequeueStop \/ DequeueSend
                  \/ UptoPoll
    \/ PeekTail(a) \/ PeekHead(a)

\* the next step of each goroutine is there to be taken, whatever the other
\* goroutine is in the middle of
NeverWaits ==
    /\ ppc = "store" => ENABLED EnqueueStoreTail
    /\ ppc = "size" => ENABLED EnqueueAddSize
    /\ cpc = "d_check" => ENABLED DequeueCheck
    /\ cpc = "d_store" => ENABLED DequeueStoreHead
    /\ cpc = "d_size" => ENABLED DequeueAddSize
    /\ cpc = "q_select" => ENABLED DequeueTick
    /\ cpc \in {"u_tick", "u_check", "u_store", "u_size"} => ENABLED UptoPoll
    /\ cpc = "idle" =>
           \A b \in Vbuckets :
               /\ ENABLED DequeueSingleElement(b)
               /\ ENABLED Dequeue(b)
               /\ ENABLED PeekTail(b)
    /\ ppc = "idle" /\ TotalEnqueues < MaxShardEnqueues =>
           \A a \in Vbuckets : ENABLED ShardEnqueue(a)

\* C12: a step of an operation on vbucket a leaves head, tail, free list,
\* size, nodes and queued contents of every other vbucket b as they were,
\* and no goroutine in the middle of an operation on one vbucket has to
\* wait for the other goroutine's operation on another (or the same) one.
ShardsAreIndependent ==
    /\ [][\A a \in Vbuckets : StepOn(a) =>
              \A b \in Vbuckets \ {a} : UNCHANGED ShardState(b)]_vars
    /\ []NeverWaits

\* the producer is in the middle of an Enqueue on one vbucket and the
\* consumer in the middle of a dequeue on another, whose queue is not empty
WitnessC12 ==
    /\ ppc = "store" /\ cpc = "d_store" /\ pvb # cvb
    /\ Contents(cvb) # <<>>

\* ========================================================================
\* kvSender (indexer/kv_sender.go): one command, run in its own goroutine.
\*
\* sender is the state of that goroutine:
\*   pc          where it is: "start", "call" (RetryHelper.Run calls fn),
\*               "fanout" (inside fn's loop over addrs), "respond", "done"
\*   cmd         the command's message type
\*   empty       len(indexInstList) == 0
\*   addrs       number of producer addresses resolved
\*   vbnos       OPEN_STREAM: all vbuckets of the cluster;
\*               KV_SENDER_RESTART_VBUCKETS: restartTs.GetVbnos()
\*   r, i        Run's attempt number; producers fn has been through
\*   err         fn's err (its parameter, overwritten by err = ret)
\*   runErr      Run's err: what the last call of fn returned
\*   activeTs, rollbackTs, rollback   the variables fn closes over; a
\*               timestamp is the set of its vbnos and {} is the nil one
\*               (an empty timestamp is never merged in, so a timestamp
\*               that is not nil holds a vbno)
\*   stop        a signal is waiting on stopCh
\*   respCh      the messages written to respCh, in order
\*   msgTs       the rollbackTs of the MsgRollback written to respCh
\*   passes      what Run hands to fn as err: its own err ("last") or nil
\* and, for the properties, what the producers answered:
\*   rounds      calls of fn so far
\*   seen        kinds of answers in the current call of fn
\*   always      kinds of error met in every completed call of fn
\*   actives, rollbacks   the vbnos the producers have reported active,
\*               and in need of a rollback, for the command's bucket
\*   fetched     "no", or how asking the cluster for vbuckets and
\*               addresses ended: "ok", "failed"
\*   sentAfterStop   a request was made while a signal was on stopCh
\* ========================================================================
MaxProducers == 2     \* producer addresses range over 0..MaxProducers
MaxVbnos == 2         \* vbnos range over 1..MaxVbnos

MAX_KV_REQUEST_RETRY == 3

Commands ==
    {"OPEN_STREAM", "ADD_INDEX_LIST_TO_STREAM",
     "REMOVE_INDEX_LIST_FROM_STREAM", "REMOVE_BUCKET_FROM_STREAM",
     "CLOSE_STREAM", "KV_SENDER_RESTART_VBUCKETS"}

AllVbnos == 1 .. MaxVbnos

\* errors, by what the code can tell apart: nil, projClient.ErrorTopicMissing,
\* errors.New("ErrPartialVbStart"), any other error of a request
NilErr == "nil"
ErrorTopicMissing == "ErrorTopicMissing"
ErrPartialVbStart == "ErrPartialVbStart"
ErrTransient == "transient"

MsgSuccess == "MsgSuccess"
MsgRollback == "MsgRollback"
MsgKVStreamRepair == "MsgKVStreamRepair"
\* MsgError{code: ERROR_KVSENDER_STREAM_REQUEST_ERROR, severity: FATAL}
MsgErrorFatal == "MsgError FATAL"

\* the queue is not part of a kvSender command
queue == <<numVbuckets, qvars, pvars, cvars, ret, panicked, hvars>>
\* nor are the kvSender's loop and the snapshot container
nocmd == <<queue, kv, sc, cinfo>>

\* handleSupvervisorCommands: go k.<command>(...)
KvInit ==
    /\ NewAtomicMutationQueue(0)
    /\ kv = NoKVSender /\ sc = NoContainer /\ cinfo = NoCache
    /\ \E c \in Commands, e \in BOOLEAN, p \in {"nil", "last"} :
           /\ e => c = "OPEN_STREAM"
           /\ sender = [pc |-> "start", cmd |-> c, empty |-> e, passes |-> p,
                        addrs |-> 0, vbnos |-> {}, r |-> 0, i |-> 0,
                        err |-> NilErr, runErr |-> NilErr,
                        activeTs |-> {}, rollbackTs |-> {},
                        rollback |-> FALSE, stop |-> FALSE, respCh |-> <<>>,
                        rounds |-> 0, seen |-> {},
                        actives |-> {}, rollbacks |-> {}, msgTs |-> {},
                        fetched |-> "no", sentAfterStop |-> FALSE,
                        always |-> {"transient", "topicMissing"}]

\* ------------------------------------------------------------------------
\* before the retry loop
\* ------------------------------------------------------------------------
\* an empty list taken for an error
OpenEmptyListIsAnError ==
    /\ sender.pc = "start" /\ sender.cmd = "OPEN_STREAM" /\ sender.empty
    /\ sender' = [sender EXCEPT !.respCh = Append(@, MsgErrorFatal),
                                !.pc = "done"]
    /\ UNCHANGED nocmd

\* if len(indexInstList) == 0: respCh <- &MsgSuccess{}; return
OpenEmptyList ==
    /\ sender.pc = "start" /\ sender.cmd = "OPEN_STREAM" /\ sender.empty
    /\ sender' = [sender EXCEPT !.respCh = Append(@, MsgSuccess),
                                !.pc = "done"]
    /\ UNCHANGED nocmd

\* the error of a fetch logged, and the command carried on with no address
FetchFailsUnnoticed ==
    /\ sender.pc = "start" /\ ~sender.empty
    /\ sender' = [sender EXCEPT !.fetched = "failed", !.pc = "call"]
    /\ UNCHANGED nocmd

\* getAllVbucketsInCluster, makeRestartTsForVbs, getAllProjectorAddrs,
\* getProjAddrsForVbuckets: one of them returns an error
FetchFails ==
    /\ sender.pc = "start" /\ ~sender.empty
    /\ sender' = [sender EXCEPT !.respCh = Append(@, MsgErrorFatal),
                                !.fetched = "failed", !.pc = "done"]
    /\ UNCHANGED nocmd

\* they all succeed: n producer addresses, and the vbnos
FetchSucceeds(n, vbs) ==
    /\ sender.pc = "start" /\ ~sender.empty
    /\ IF sender.cmd \in {"OPEN_STREAM", "KV_SENDER_RESTART_VBUCKETS"}
       THEN \E k \in 0 .. MaxVbnos : vbs = 1 .. k
       ELSE vbs = {}
    \* getProjAddrsForVbuckets: the projectors that have a vbucket of vbnos
    /\ sender.cmd = "KV_SENDER_RESTART_VBUCKETS" /\ vbs = {} => n = 0
    /\ sender' = [sender EXCEPT !.addrs = n, !.vbnos = vbs,
                                !.fetched = "ok", !.pc = "call"]
    /\ UNCHANGED nocmd

\* ------------------------------------------------------------------------
\* what a producer answers to a request
\* ------------------------------------------------------------------------
\* a timestamp of a response: whether it is for the command's bucket, and
\* its vbnos
EmptyTs == [same |-> TRUE, vbs |-> {}]

TimestampsOver(U) ==
    {[same |-> TRUE, vbs |-> v] : v \in SUBSET U}
        \cup {[same |-> FALSE, vbs |-> U]}

\* the answers to the request of command cmd: an error, or a response with
\* its active and rollback timestamps (OPEN_STREAM), its rollback timestamp
\* (KV_SENDER_RESTART_VBUCKETS), or nothing more (the other commands).
\* A producer starts only vbuckets it was asked for.
Answers(cmd, vbnos) ==
    [err : {ErrTransient, ErrorTopicMissing},
     active : {EmptyTs}, rollback : {EmptyTs}]
    \cup
    [err : {NilErr},
     active : IF cmd = "OPEN_STREAM" THEN TimestampsOver(vbnos)
              ELSE {EmptyTs},
     rollback : CASE cmd = "OPEN_STREAM" -> TimestampsOver(vbnos)
                  [] cmd = "KV_SENDER_RESTART_VBUCKETS" ->
                         TimestampsOver(AllVbnos)
                  [] OTHER -> {EmptyTs}]

\* if ts != nil && !ts.IsEmpty() && ts.GetBucket() == bucket
TsCounts(ts) == ts.vbs # {} /\ ts.same

\* activeTs = ts.Clone() or activeTs.Union(ts), for a timestamp that counts
updateActiveTsFromResponse(activeTs, ts) ==
    IF TsCounts(ts) THEN activeTs \cup ts.vbs ELSE activeTs

\* an update that keeps the rollback timestamp of the last response only
updateRollbackTsOverwrites(rollbackTs, ts) ==
    IF TsCounts(ts) THEN ts.vbs ELSE {}

\* rollbackTs = ts.Clone() or rollbackTs.Union(ts), for a timestamp that
\* counts
updateRollbackTsFromResponse(rollbackTs, ts) ==
    IF TsCounts(ts) THEN rollbackTs \cup ts.vbs ELSE rollbackTs

\* whether any vb in vbList is part of ts
checkVbListInTS(vbList, ts) == vbList \cap ts # {}

RemovalCommands ==
    {"REMOVE_INDEX_LIST_FROM_STREAM", "REMOVE_BUCKET_FROM_STREAM",
     "CLOSE_STREAM"}

\* no command takes a topic-missing error for success
TopicMissingIsNeverSuccess(cmd) == FALSE

\* every command takes a topic-missing error for success
TopicMissingIsAlwaysSuccess(cmd) == TRUE

\* if ret.Error() == projClient.ErrorTopicMissing.Error(): "Treating
\* TopicMissing As Success", in the three commands that remove
TopicMissingIsSuccess(cmd) == cmd \in RemovalCommands

\* the kind of a producer's answer, for the properties
Kind(a) ==
    IF a.err = NilErr THEN "ack"
    ELSE IF a.err = ErrorTopicMissing THEN "topicMissing"
    ELSE "transient"

\* ------------------------------------------------------------------------
\* RetryHelper.Run and the function it retries
\* ------------------------------------------------------------------------
\* the error Run hands to fn
RunPasses(passes, runErr) == IF passes = "last" THEN runErr ELSE NilErr

\* Run is done after a call of fn that returned nil, and after the last of
\* MAX_KV_REQUEST_RETRY calls
RunStops(r, result) == result = NilErr \/ r + 1 >= MAX_KV_REQUEST_RETRY

\* err = r.call(r.retries, err)
RunCallsFn ==
    /\ sender.pc = "call"
    /\ sender' = [sender EXCEPT
                     !.err = RunPasses(sender.passes, sender.runErr),
                     !.i = 0, !.seen = {}, !.rounds = @ + 1,
                     !.pc = "fanout"]
    /\ UNCHANGED nocmd

\* the signals stopCh holds without its sender waiting
StopChCap == 1

\* execWithStopCh with held signals left on stopCh by its receive: whether
\* stopCh <- true returns
Reposts(held) == held < StopChCap

\* an execWithStopCh that sends the signal without having received it
SkipsRequestKeepingSignal ==
    /\ sender.pc = "fanout" /\ sender.i < sender.addrs
    /\ sender.cmd # "KV_SENDER_RESTART_VBUCKETS"
    /\ sender.stop
    /\ sender' = IF Reposts(1)
                 THEN [sender EXCEPT !.i = @ + 1, !.seen = @ \cup {"skip"}]
                 ELSE [sender EXCEPT !.pc = "blocked"]
    /\ UNCHANGED nocmd

\* execWithStopCh, case <-stopCh: stopCh <- true; return.  The request to
\* this producer is not made; the signal is back on stopCh, or the
\* goroutine waits for stopCh to take it.
SkipsRequest ==
    /\ sender.pc = "fanout" /\ sender.i < sender.addrs
    /\ sender.cmd # "KV_SENDER_RESTART_VBUCKETS"
    /\ sender.stop
    /\ sender' = IF Reposts(0)
                 THEN [sender EXCEPT !.i = @ + 1, !.seen = @ \cup {"skip"}]
                 ELSE [sender EXCEPT !.pc = "blocked"]
    /\ UNCHANGED nocmd

\* the request to the next producer and what fn does with its answer a
SendsRequest(a) ==
    /\ sender.pc = "fanout" /\ sender.i < sender.addrs
    /\ sender.cmd = "KV_SENDER_RESTART_VBUCKETS" \/ ~sender.stop
    /\ a \in Answers(sender.cmd, sender.vbnos)
    /\ sender' =
           [sender EXCEPT
               !.i = @ + 1,
               !.seen = @ \cup {Kind(a)},
               !.sentAfterStop = @ \/ sender.stop,
               !.actives = IF a.active.same THEN @ \cup a.active.vbs ELSE @,
               !.rollbacks = IF a.rollback.same THEN @ \cup a.rollback.vbs
                             ELSE @,
               !.err = IF a.err = NilErr THEN @
                       ELSE IF a.err = ErrorTopicMissing
                               /\ TopicMissingIsSuccess(sender.cmd)
                            THEN @
                            ELSE a.err,
               !.activeTs = IF a.err = NilErr /\ sender.cmd = "OPEN_STREAM"
                            THEN updateActiveTsFromResponse(@, a.active)
                            ELSE @,
               !.rollbackTs =
                   IF a.err = NilErr
                      /\ sender.cmd \in {"OPEN_STREAM",
                                         "KV_SENDER_RESTART_VBUCKETS"}
                   THEN updateRollbackTsFromResponse(@, a.rollback)
                   ELSE @]
    /\ UNCHANGED nocmd

\* a restartVbuckets that rolls back on any rollback timestamp
RestartRollsBackOnAny(s) == s.rollbackTs # {}

\* restartVbuckets: if rollbackTs != nil && checkVbListInTS(...)
RestartRollsBack(s) ==
    s.rollbackTs # {} /\ checkVbListInTS(s.vbnos, s.rollbackTs)

\* a fn that takes any active timestamp for enough
PartialVbStartOnlyIfNone(s) == s.activeTs = {}

\* activeTs == nil || activeTs.Len() != len(vbnos)
PartialVbStart(s) ==
    s.activeTs = {} \/ Cardinality(s.activeTs) # Cardinality(s.vbnos)

\* a fn that looks at err before it looks at the rollback
FnErrBeforeRollback(s) ==
    IF s.err # NilErr THEN s.err
    ELSE IF s.cmd = "OPEN_STREAM" /\ s.rollbackTs = {} /\ PartialVbStart(s)
         THEN ErrPartialVbStart
         ELSE NilErr

\* a fn that does not return its err
FnForgetsErr(s) == NilErr

\* what fn returns after its loop over addrs
FnResult(s) ==
    CASE s.cmd = "OPEN_STREAM" ->
             IF s.rollbackTs # {} THEN NilErr
             ELSE IF s.err # NilErr THEN s.err
             ELSE IF PartialVbStart(s) THEN ErrPartialVbStart
                  ELSE NilErr
      [] s.cmd = "KV_SENDER_RESTART_VBUCKETS" ->
             IF RestartRollsBack(s) THEN NilErr ELSE s.err
      [] OTHER -> s.err

\* fn returns, and Run either calls it again (after a sleep) or returns
FnReturns ==
    /\ sender.pc = "fanout" /\ sender.i = sender.addrs
    /\ sender' =
           [sender EXCEPT
               !.rollback = @ \/ (sender.cmd = "KV_SENDER_RESTART_VBUCKETS"
                                  /\ RestartRollsBack(sender)),
               !.runErr = FnResult(sender),
               !.always = @ \cap sender.seen,
               !.r = IF RunStops(sender.r, FnResult(sender)) THEN @ ELSE @ + 1,
               !.pc = IF RunStops(sender.r, FnResult(sender)) THEN "respond"
                      ELSE "call"]
    /\ UNCHANGED nocmd

\* ------------------------------------------------------------------------
\* after the retry loop: the message(s) written to respCh
\* ------------------------------------------------------------------------
\* an error branch that does not return
FinalMessagesFallingThrough(s) ==
    IF s.runErr # NilErr THEN <<MsgErrorFatal, MsgSuccess>>
    ELSE <<MsgSuccess>>

FinalMessages(s) ==
    CASE s.cmd = "OPEN_STREAM" ->
             IF s.rollbackTs # {} THEN <<MsgRollback>>
             ELSE IF s.runErr # NilErr THEN <<MsgErrorFatal>>
             ELSE <<MsgSuccess>>
      [] s.cmd = "KV_SENDER_RESTART_VBUCKETS" ->
             IF s.rollback THEN <<MsgRollback>>
             ELSE IF s.runErr # NilErr
                  THEN IF s.runErr = ErrorTopicMissing
                       THEN <<MsgKVStreamRepair>>
                       ELSE <<MsgErrorFatal>>
                  ELSE <<MsgSuccess>>
      [] OTHER ->
             IF s.runErr # NilErr THEN <<MsgErrorFatal>> ELSE <<MsgSuccess>>

\* MsgRollback{streamId, rollbackTs}
MessageTs(s) ==
    IF MsgRollback \in {FinalMessages(s)[k] : k \in 1 .. Len(FinalMessages(s))}
    THEN s.rollbackTs ELSE {}

Responds ==
    /\ sender.pc = "respond"
    /\ sender' = [sender EXCEPT !.respCh = @ \o FinalMessages(sender),
                                !.msgTs = MessageTs(sender),
                                !.pc = "done"]
    /\ UNCHANGED nocmd

\* the caller signals the command's stop channel
SignalsStop ==
    /\ sender.pc \in {"start", "call", "fanout", "respond"} /\ ~sender.stop
    /\ sender' = [sender EXCEPT !.stop = TRUE]
    /\ UNCHANGED nocmd

\* ------------------------------------------------------------------------
\* The specification of a kvSender command
\* ------------------------------------------------------------------------
SenderStep ==
    \/ OpenEmptyList
    \/ FetchFails
    \/ \E n \in 0 .. MaxProducers, vbs \in SUBSET AllVbnos : FetchSucceeds(n, vbs)
    \/ RunCallsFn
    \/ SkipsRequest
    \/ \E a \in Answers(sender.cmd, sender.vbnos) : SendsRequest(a)
    \/ FnReturns
    \/ Responds

KvNext == SenderStep \/ SignalsStop

KvSpec == KvInit /\ [][KvNext]_vars

\* the goroutine keeps running, every request returns and the caller takes
\* the response
KvFairSpec == KvSpec /\ WF_vars(SenderStep)


\* ------------------------------------------------------------------------
\* Claims about the response of a command
\* ------------------------------------------------------------------------
Done == sender.pc = "done"

\* a bound on the steps the goroutine of the command has left
StepsLeft ==
    CASE sender.pc = "start" ->
             3 + MAX_KV_REQUEST_RETRY * (MaxProducers + 2)
      [] sender.pc = "call" ->
             2 + (MAX_KV_REQUEST_RETRY - sender.r) * (MaxProducers + 2)
      [] sender.pc = "fanout" ->
             1 + (MAX_KV_REQUEST_RETRY - sender.r) * (MaxProducers + 2)
               - sender.i
      [] sender.pc = "respond" -> 1
      [] OTHER -> 0

\* the goroutine has a step to take that waits for nothing but the return
\* of a request
NeverBlocks ==
    ENABLED (\/ OpenEmptyList \/ FetchFails \/ RunCallsFn \/ SkipsRequest
             \/ SendsRequest([err |-> ErrTransient, active |-> EmptyTs,
                              rollback |-> EmptyTs])
             \/ FnReturns \/ Responds)

RollbackTakesPrecedence ==
    (/\ Done /\ sender.cmd = "OPEN_STREAM"
     /\ sender.actives # {} /\ sender.rollbacks # {})
        => sender.respCh = <<MsgRollback>>

WitnessC14 ==
    /\ Done /\ sender.cmd = "OPEN_STREAM" /\ sender.addrs = 2
    /\ sender.actives # {} /\ sender.rollbacks # {}
    /\ sender.respCh = <<MsgRollback>>

\* C15: OPEN_STREAM answers MsgSuccess only when the union of the active
\* timestamps the producers have returned covers every expected vbucket;
\* an attempt that ends with fewer vbuckets reported active than expected
\* (and no rollback) fails, is retried while attempts remain, and is never
\* answered with MsgSuccess.  The union runs over the answers of the
\* command so far, as activeTs does.
SuccessNeedsFullCoverage ==
    /\ []((/\ Done /\ sender.cmd = "OPEN_STREAM" /\ ~sender.empty
           /\ sender.respCh = <<MsgSuccess>>)
              => /\ sender.rounds >= 1
                 /\ sender.vbnos \subseteq sender.actives)
    /\ [][(/\ FnReturns /\ sender.cmd = "OPEN_STREAM"
           /\ sender.rollbacks = {}
           /\ ~(sender.vbnos \subseteq sender.actives /\ sender.actives # {}))
             => /\ sender'.runErr # NilErr
                /\ sender'.pc = "call" \/ sender.r + 1 = 3]_vars

WitnessC15 ==
    /\ Done /\ sender.cmd = "OPEN_STREAM" /\ sender.rounds = 2
    /\ Cardinality(sender.vbnos) = 2 /\ sender.addrs = 2
    /\ sender.respCh = <<MsgSuccess>>

\* C16: ADD_INDEX_LIST_TO_STREAM, REMOVE_INDEX_LIST_FROM_STREAM,
\* REMOVE_BUCKET_FROM_STREAM and CLOSE_STREAM answer MsgSuccess only if, in
\* the last attempt, the request was sent to every producer and every
\* producer acknowledged it (a topic-missing answer counts in the three
\* removals), also when the command is cancelled.
SuccessNeedsEveryProducer ==
    (/\ Done /\ sender.cmd \in RemovalCommands \cup {"ADD_INDEX_LIST_TO_STREAM"}
     /\ sender.respCh = <<MsgSuccess>>)
        => /\ sender.rounds >= 1
           /\ sender.seen \subseteq
                  {"ack"} \cup (IF sender.cmd \in RemovalCommands
                                THEN {"topicMissing"} ELSE {})

\* C17: a command of which every attempt meets a transient error, the last
\* one no topic-missing error, and no rollback is reported, makes exactly 3
\* attempts and answers MsgError FATAL.
TransientFailureGivesUp ==
    (/\ Done /\ sender.rounds >= 1
     /\ "transient" \in sender.always /\ "topicMissing" \notin sender.seen
     /\ sender.rollbacks = {})
        => /\ sender.rounds = 3
           /\ sender.respCh = <<MsgErrorFatal>>

WitnessC17 ==
    /\ Done /\ sender.rounds = 3 /\ sender.cmd = "CLOSE_STREAM"
    /\ "transient" \in sender.always /\ sender.seen = {"transient", "ack"}
    /\ sender.respCh = <<MsgErrorFatal>>

\* C18: an attempt is judged on its own answers: when, in the last attempt,
\* every producer was sent the request and answered it successfully (for
\* OPEN_STREAM the active timestamps cover every expected vbucket), and no
\* rollback was reported, the command answers MsgSuccess whatever error an
\* earlier attempt met.
LaterSuccessIsSuccess ==
    (/\ Done /\ sender.rounds >= 1 /\ sender.seen \subseteq {"ack"}
     /\ sender.rollbacks = {}
     /\ sender.cmd = "OPEN_STREAM" => /\ sender.actives # {}
                                      /\ sender.vbnos \subseteq sender.actives)
        => sender.respCh = <<MsgSuccess>>

\* C19: in the three removals, a first attempt in which every producer
\* acknowledges or reports the topic missing is the only attempt, and the
\* command answers MsgSuccess.
RemovalTakesTopicMissingForSuccess ==
    /\ [][(/\ FnReturns /\ sender.cmd \in RemovalCommands /\ sender.rounds = 1
           /\ sender.seen \subseteq {"ack", "topicMissing"})
             => sender'.pc = "respond" /\ sender'.runErr = NilErr]_vars
    /\ []((/\ Done /\ sender.cmd \in RemovalCommands /\ sender.rounds = 1
           /\ sender.seen \subseteq {"ack", "topicMissing"})
              => sender.respCh = <<MsgSuccess>>)

WitnessC19 ==
    /\ Done /\ sender.cmd \in RemovalCommands /\ sender.rounds = 1
    /\ sender.seen = {"ack", "topicMissing"}
    /\ sender.respCh = <<MsgSuccess>>

\* C20: in ADD_INDEX_LIST_TO_STREAM a topic-missing answer fails the
\* attempt, which is retried like any other failed attempt; when every
\* attempt meets one, the command makes 3 attempts and answers MsgError
\* FATAL; when the last attempt meets one, the answer is not MsgSuccess.
AddIndexTakesTopicMissingForFailure ==
    /\ [][(/\ FnReturns /\ sender.cmd = "ADD_INDEX_LIST_TO_STREAM"
           /\ "topicMissing" \in sender.seen)
             => /\ sender'.runErr # NilErr
                /\ sender'.pc = "call" \/ sender.r + 1 = 3]_vars
    /\ []((/\ Done /\ sender.cmd = "ADD_INDEX_LIST_TO_STREAM"
           /\ "topicMissing" \in sender.seen)
              => sender.respCh # <<MsgSuccess>>)
    /\ []((/\ Done /\ sender.cmd = "ADD_INDEX_LIST_TO_STREAM"
           /\ sender.rounds >= 1 /\ "topicMissing" \in sender.always)
              => sender.rounds = 3 /\ sender.respCh = <<MsgErrorFatal>>)

WitnessC20 ==
    /\ Done /\ sender.cmd = "ADD_INDEX_LIST_TO_STREAM" /\ sender.rounds = 3
    /\ sender.always = {"topicMissing"}
    /\ sender.respCh = <<MsgErrorFatal>>


\* C21: when, in the last attempt of KV_SENDER_RESTART_VBUCKETS, a producer
\* answers with the topic-missing error, and no rollback is reported, the
\* response is MsgKVStreamRepair, wherever that producer stands in addrs
\* and whatever the other producers answer.
RestartTopicMissingAsksRepair ==
    (/\ Done /\ sender.cmd = "KV_SENDER_RESTART_VBUCKETS"
     /\ sender.rounds >= 1 /\ "topicMissing" \in sender.seen
     /\ sender.rollbacks = {})
        => sender.respCh = <<MsgKVStreamRepair>>


\* C22 as stated: once an attempt of OPEN_STREAM or
\* KV_SENDER_RESTART_VBUCKETS has got a rollback timestamp from a producer,
\* Run makes no further attempt and the response is MsgRollback with the
\* union of the rollback timestamps.
AnyRollbackStopsRetries ==
    /\ [][(/\ FnReturns
           /\ sender.cmd \in {"OPEN_STREAM", "KV_SENDER_RESTART_VBUCKETS"}
           /\ sender.rollbacks # {})
             => sender'.pc = "respond"]_vars
    /\ []((/\ Done
           /\ sender.cmd \in {"OPEN_STREAM", "KV_SENDER_RESTART_VBUCKETS"}
           /\ sender.rollbacks # {})
              => /\ sender.respCh = <<MsgRollback>>
                 /\ sender.msgTs = sender.rollbacks)

\* the rollback that ends a command: any in OPEN_STREAM, one that holds a
\* vbno of the restart timestamp in KV_SENDER_RESTART_VBUCKETS
RollbackObserved ==
    \/ sender.cmd = "OPEN_STREAM" /\ sender.rollbacks # {}
    \/ /\ sender.cmd = "KV_SENDER_RESTART_VBUCKETS"
       /\ sender.rollbacks \cap sender.vbnos # {}

\* C22: once an attempt of OPEN_STREAM has got a rollback timestamp from a
\* producer, or an attempt of KV_SENDER_RESTART_VBUCKETS one that holds a
\* vbno being restarted, Run makes no further attempt and the response is
\* MsgRollback with the union of the rollback timestamps got.
RollbackStopsRetries ==
    /\ [][(FnReturns /\ RollbackObserved) => sender'.pc = "respond"]_vars
    /\ []((Done /\ RollbackObserved)
              => /\ sender.respCh = <<MsgRollback>>
                 /\ sender.msgTs = sender.rollbacks)

WitnessC22 ==
    /\ Done /\ sender.cmd = "KV_SENDER_RESTART_VBUCKETS"
    /\ sender.rounds = 2 /\ "transient" \in sender.seen
    /\ sender.vbnos = {1} /\ sender.msgTs = {1, 2}
    /\ sender.respCh = <<MsgRollback>>


\* C23: in each of the six commands the stop channel is looked at before
\* each request to a producer, and no request is made while a signal is on
\* it.
NoRequestAfterStop == ~sender.sentAfterStop

EmptyOpenSucceedsAtOnce ==
    /\ [][(sender.pc = "start" /\ sender.empty /\ sender'.pc # "start")
             => sender'.pc = "done"]_vars
    /\ []((Done /\ sender.cmd = "OPEN_STREAM" /\ sender.empty)
              => /\ sender.respCh = <<MsgSuccess>>
                 /\ sender.fetched = "no"
                 /\ sender.rounds = 0 /\ sender.seen = {})

WitnessC25 ==
    /\ Done /\ sender.cmd = "OPEN_STREAM" /\ sender.empty /\ sender.stop
    /\ sender.respCh = <<MsgSuccess>>

MaxCommands == 3      \* commands the supervisor sends

\* the message types a supervisor sends: the six commands, the shutdown,
\* and one type that is none of them
MsgTypes == Commands \cup {"KV_SENDER_SHUTDOWN", "OTHER_MSG"}

\* NewKVSender: go k.run()
NewKVSender ==
    kv = [pc |-> "recv", cmd |-> "none", spc |-> "idle",
          sent |-> 0, acks |-> 0, spawned |-> 0, running |-> 0,
          closed |-> FALSE, left |-> "no"]

DispatchInit ==
    /\ NewAtomicMutationQueue(0) /\ sender = NoSender /\ sc = NoContainer
    /\ cinfo = NoCache
    /\ NewKVSender

\* case cmd, ok := <-k.supvCmdch, with the supervisor's send
ReceivesCommand(t) ==
    /\ kv.pc = "recv" /\ kv.spc = "idle" /\ kv.sent < MaxCommands
    /\ ~kv.closed
    /\ kv' = [kv EXCEPT !.pc = "handle", !.cmd = t, !.spc = "wait",
                        !.sent = @ + 1]
    /\ UNCHANGED <<queue, sender, sc, cinfo>>

\* the supervisor closes supvCmdch, between two commands
ClosesChannel ==
    /\ kv.spc = "idle" /\ ~kv.closed
    /\ kv' = [kv EXCEPT !.closed = TRUE]
    /\ UNCHANGED <<queue, sender, sc, cinfo>>

\* case cmd, ok := <-k.supvCmdch with ok false: break loop
ReceivesClosed ==
    /\ kv.pc = "recv" /\ kv.closed
    /\ kv' = [kv EXCEPT !.pc = "exit", !.left = "closed"]
    /\ UNCHANGED <<queue, sender, sc, cinfo>>

\* the supervisor sends a command on supvCmdch after run has returned: no
\* goroutine receives from the channel any more
SendsAfterExit(t) ==
    /\ kv.pc = "exit" /\ kv.spc = "idle" /\ kv.sent < MaxCommands
    /\ ~kv.closed
    /\ kv' = [kv EXCEPT !.spc = "wait", !.sent = @ + 1]
    /\ UNCHANGED <<queue, sender, sc, cinfo>>

\* run's test for KV_SENDER_SHUTDOWN, then handleSupvervisorCommands: the
\* handler of one of the six commands starts its goroutine; the default
\* branch logs the command and returns to the loop
HandlesCommand ==
    /\ kv.pc = "handle"
    /\ kv' = IF kv.cmd = "KV_SENDER_SHUTDOWN"
             THEN [kv EXCEPT !.pc = "ackExit"]
             ELSE IF kv.cmd \in Commands
                  THEN [kv EXCEPT !.pc = "ack", !.spawned = @ + 1,
                                  !.running = @ + 1]
                  ELSE [kv EXCEPT !.pc = "recv", !.cmd = "none"]
    /\ UNCHANGED <<queue, sender, sc, cinfo>>

\* a shutdown whose break leaves the select and not the loop
AcknowledgesAndLoops ==
    /\ kv.pc \in {"ack", "ackExit"} /\ kv.spc = "wait"
    /\ kv' = [kv EXCEPT !.pc = "recv",
                        !.cmd = "none", !.spc = "idle", !.acks = @ + 1]
    /\ UNCHANGED <<queue, sender, sc, cinfo>>

\* k.supvCmdch <- &MsgSuccess{}, with the supervisor's receive; after a
\* shutdown, break loop
Acknowledges ==
    /\ kv.pc \in {"ack", "ackExit"} /\ kv.spc = "wait"
    /\ kv' = [kv EXCEPT !.pc = IF @ = "ack" THEN "recv" ELSE "exit",
                        !.left = IF kv.pc = "ack" THEN @ ELSE "shutdown",
                        !.cmd = "none", !.spc = "idle", !.acks = @ + 1]
    /\ UNCHANGED <<queue, sender, sc, cinfo>>

\* the goroutine of a command returns (its requests answered, its message
\* written to respCh)
WorkerReturns ==
    /\ kv.running > 0
    /\ kv' = [kv EXCEPT !.running = @ - 1]
    /\ UNCHANGED <<queue, sender, sc, cinfo>>

DispatchNext ==
    \/ \E t \in MsgTypes : ReceivesCommand(t)
    \/ ClosesChannel
    \/ ReceivesClosed
    \/ \E t \in MsgTypes : SendsAfterExit(t)
    \/ HandlesCommand
    \/ Acknowledges
    \/ WorkerReturns

DispatchSpec == DispatchInit /\ [][DispatchNext]_vars

\* the loop, in hand a command, has a step to take that is not the return
\* of a goroutine
LoopNeverWaits ==
    kv.pc \in {"handle", "ack", "ackExit"}
        => ENABLED (HandlesCommand \/ Acknowledges)

\* C27: for every command the supervisor sends on supvCmdch, the loop has
\* started the command's goroutine and sent exactly one MsgSuccess on
\* supvCmdch when it takes the next command; it does so without waiting
\* for the goroutine, and no command of any type is left without its
\* MsgSuccess.
EveryCommandAcknowledged ==
    /\ kv.acks <= kv.sent /\ kv.sent <= kv.acks + 1
    /\ kv.pc \in {"recv", "exit"} => kv.acks = kv.sent
    /\ kv.pc \in {"ack", "ackExit"} => kv.acks + 1 = kv.sent
    /\ LoopNeverWaits

\* the same for the six commands and the shutdown only
KnownCommandsAcknowledged ==
    /\ kv.acks <= kv.sent /\ kv.sent <= kv.acks + 1
    /\ (kv.pc \in {"recv", "exit"} /\ kv.spc = "idle") => kv.acks = kv.sent
    /\ kv.pc \in {"ack", "ackExit"} => kv.acks + 1 = kv.sent
    /\ LoopNeverWaits


\* ========================================================================
\* snapshotInfoContainer: a container/list of SnapshotInfo, newest at the
\* front.  A SnapshotInfo is [id, ts]: its identity (its rank among the
\* snapshots made) and its stability timestamp.  sc is a record:
\*   snapshotList   sc.snapshotList, front first
\*   made      SnapshotInfos made so far
\*   ret       the last call: [op, ts, val]
\*   listed    the slice the last List returned: whether it shares the
\*             container's elements, and what it held when returned
\* ========================================================================
MaxSnapshots == 3     \* SnapshotInfos made
MaxTs == 3            \* stability timestamps range over 1..MaxTs

Timestamps == 1 .. MaxTs
\* the nil SnapshotInfo
NoSnapshot == [id |-> 0, ts |-> 0]
NoSlice == [made |-> FALSE, shared |-> FALSE, infos |-> <<>>]

\* Timestamp.GreaterThan, GreaterThanEqual, Equals on the stability
\* timestamps of two snapshots
GreaterThan(a, b) == a > b
GreaterThanEqual(a, b) == a >= b
Equals(a, b) == a = b

\* l without its element at position i
RemoveElement(l, i) == SubSeq(l, 1, i - 1) \o SubSeq(l, i + 1, Len(l))

\* NewSnapshotInfoContainer(infos): PushBack of each
NewSnapshotInfoContainer(infos) ==
    sc = [snapshotList |-> infos, made |-> Len(infos),
          ret |-> [op |-> "none", ts |-> 0, val |-> NoSnapshot],
          listed |-> NoSlice]

LedgerInit ==
    /\ NewAtomicMutationQueue(0) /\ sender = NoSender /\ kv = NoKVSender
    /\ cinfo = NoCache
    /\ \E t \in Timestamps :
           NewSnapshotInfoContainer(<<>>)
           \/ NewSnapshotInfoContainer(<<[id |-> 1, ts |-> t]>>)

Returns(o, t, v) == [op |-> o, ts |-> t, val |-> v]

\* a List that hands out the container's own elements
SharedSlice(l) == [made |-> TRUE, shared |-> TRUE, infos |-> l]

\* List: a new slice, each element appended front to back
NewSlice(l) == [made |-> TRUE, shared |-> FALSE, infos |-> l]

\* what the holder of a slice returned by List reads in it
Reads(slice, l) == IF slice.shared THEN l ELSE slice.infos

CallList ==
    /\ sc' = [sc EXCEPT !.listed = NewSlice(sc.snapshotList),
                        !.ret = Returns("List", 0, NoSnapshot)]
    /\ UNCHANGED <<queue, sender, kv, cinfo>>

\* an Add that puts the entry at the back
CallAddAtBack(t) ==
    /\ sc.made < MaxSnapshots
    /\ sc' = [sc EXCEPT
                 !.snapshotList = @ \o <<[id |-> sc.made + 1, ts |-> t]>>,
                 !.made = @ + 1,
                 !.ret = Returns("Add", t, NoSnapshot)]
    /\ UNCHANGED <<queue, sender, kv, cinfo>>

\* Add: PushFront
CallAdd(t) ==
    /\ sc.made < MaxSnapshots
    /\ sc' = [sc EXCEPT
                 !.snapshotList = <<[id |-> sc.made + 1, ts |-> t]>> \o @,
                 !.made = @ + 1,
                 !.ret = Returns("Add", t, NoSnapshot)]
    /\ UNCHANGED <<queue, sender, kv, cinfo>>

\* a RemoveOldest that removes the front element
CallRemoveFront ==
    /\ sc' = [sc EXCEPT
                 !.snapshotList = IF @ = <<>> THEN @ ELSE Tail(@),
                 !.ret = Returns("RemoveOldest", 0, NoSnapshot)]
    /\ UNCHANGED <<queue, sender, kv, cinfo>>

\* RemoveOldest: Remove(Back()) if there is one
CallRemoveOldest ==
    /\ sc' = [sc EXCEPT
                 !.snapshotList = IF @ = <<>> THEN @
                                  ELSE SubSeq(@, 1, Len(@) - 1),
                 !.ret = Returns("RemoveOldest", 0, NoSnapshot)]
    /\ UNCHANGED <<queue, sender, kv, cinfo>>

\* the loop of RemoveRecentThanTS from the element at position i on:
\* for e := Front(); e != nil; e = e.Next().  Remove(e) clears e's links,
\* so e.Next() is nil after it and the loop ends.
RECURSIVE RemoveRecentFrom(_, _, _)
RemoveRecentFrom(l, i, ts) ==
    IF i > Len(l) THEN l
    ELSE IF GreaterThan(l[i].ts, ts) THEN RemoveElement(l, i)
         ELSE RemoveRecentFrom(l, i + 1, ts)

CallRemoveRecentThanTS(t) ==
    /\ sc' = [sc EXCEPT
                 !.snapshotList = RemoveRecentFrom(@, 1, t),
                 !.ret = Returns("RemoveRecentThanTS", t, NoSnapshot)]
    /\ UNCHANGED <<queue, sender, kv, cinfo>>

\* RemoveAll: snapshotList.Init()
CallRemoveAll ==
    /\ sc' = [sc EXCEPT !.snapshotList = <<>>,
                        !.ret = Returns("RemoveAll", 0, NoSnapshot)]
    /\ UNCHANGED <<queue, sender, kv, cinfo>>

\* GetLatest: the front element, or nil
CallGetLatest ==
    /\ sc' = [sc EXCEPT
                 !.ret = Returns("GetLatest", 0,
                                 IF sc.snapshotList = <<>> THEN NoSnapshot
                                 ELSE Head(sc.snapshotList))]
    /\ UNCHANGED <<queue, sender, kv, cinfo>>

\* the loop of GetEqualToTS from position i on
RECURSIVE EqualToFrom(_, _, _)
EqualToFrom(l, i, ts) ==
    IF i > Len(l) THEN NoSnapshot
    ELSE IF Equals(ts, l[i].ts) THEN l[i]
         ELSE EqualToFrom(l, i + 1, ts)

CallGetEqualToTS(t) ==
    /\ sc' = [sc EXCEPT
                 !.ret = Returns("GetEqualToTS", t,
                                 EqualToFrom(sc.snapshotList, 1, t))]
    /\ UNCHANGED <<queue, sender, kv, cinfo>>

\* the loop of GetOlderThanTS: it returns the front element if ts is
\* greater than or equal to its timestamp, and breaks otherwise
OlderThan(l, ts) ==
    IF l = <<>> THEN NoSnapshot
    ELSE IF GreaterThanEqual(ts, l[1].ts) THEN l[1]
         ELSE NoSnapshot

CallGetOlderThanTS(t) ==
    /\ sc' = [sc EXCEPT
                 !.ret = Returns("GetOlderThanTS", t,
                                 OlderThan(sc.snapshotList, t))]
    /\ UNCHANGED <<queue, sender, kv, cinfo>>

LedgerNext ==
    \/ CallList
    \/ \E t \in Timestamps : CallAdd(t)
    \/ CallRemoveOldest
    \/ \E t \in Timestamps : CallRemoveRecentThanTS(t)
    \/ CallRemoveAll
    \/ CallGetLatest
    \/ \E t \in Timestamps : CallGetEqualToTS(t)
    \/ \E t \in Timestamps : CallGetOlderThanTS(t)

LedgerSpec == LedgerInit /\ [][LedgerNext]_vars

\* ------------------------------------------------------------------------
\* Claims about the container
\* ------------------------------------------------------------------------
\* the entries are in newest-first order of their timestamps
NewestFirst(l) ==
    \A i, j \in 1 .. Len(l) : i < j => l[i].ts > l[j].ts

\* the first entry of l, front to back, with a timestamp <= ts
RECURSIVE FirstNotNewer(_, _)
FirstNotNewer(l, ts) ==
    IF l = <<>> THEN NoSnapshot
    ELSE IF Head(l).ts <= ts THEN Head(l)
         ELSE FirstNotNewer(Tail(l), ts)

\* C28: on a container whose entries are in newest-first order,
\* GetOlderThanTS(ts) returns the first entry, from newest to oldest, with
\* a timestamp <= ts, and nil if there is none.
GetOlderReturnsFirstNotNewer ==
    (sc.ret.op = "GetOlderThanTS" /\ NewestFirst(sc.snapshotList))
        => sc.ret.val = FirstNotNewer(sc.snapshotList, sc.ret.ts)

\* the entries of l with a timestamp <= ts, in their order
RECURSIVE NotNewer(_, _)
NotNewer(l, ts) ==
    IF l = <<>> THEN <<>>
    ELSE IF Head(l).ts <= ts THEN <<Head(l)>> \o NotNewer(Tail(l), ts)
         ELSE NotNewer(Tail(l), ts)

\* C29: on a container whose entries are in newest-first order,
\* RemoveRecentThanTS(ts) removes every entry with a timestamp strictly
\* newer than ts and keeps every other entry, in its order.
RemoveRecentRemovesAllNewer ==
    [][(sc'.ret.op = "RemoveRecentThanTS" /\ NewestFirst(sc.snapshotList))
         => sc'.snapshotList = NotNewer(sc.snapshotList, sc'.ret.ts)]_vars

\* C30: List returns the entries of the container front to back, the most
\* recently added first, and what the holder of a returned slice reads in
\* it is the same after any later Add, RemoveOldest, RemoveRecentThanTS
\* or RemoveAll.
ListIsNewestFirstCopy ==
    /\ [](sc.ret.op = "List"
            => /\ Reads(sc.listed, sc.snapshotList) = sc.snapshotList
               /\ \A i, j \in 1 .. Len(sc.snapshotList) :
                      i < j => sc.snapshotList[i].id > sc.snapshotList[j].id)
    /\ [][(sc.listed.made /\ sc'.ret.op # "List")
            => Reads(sc'.listed, sc'.snapshotList)
                   = Reads(sc.listed, sc.snapshotList)]_vars

WitnessC30 ==
    /\ sc.ret.op = "RemoveRecentThanTS" /\ sc.listed.made
    /\ Len(sc.listed.infos) = 3 /\ Len(sc.snapshotList) = 2
    /\ sc.listed.infos[1].id = 3


\* the entries present, as a set
Present(l) == {l[i] : i \in 1 .. Len(l)}

\* e was added after every other entry of l
AddedLast(e, l) == e \in Present(l) /\ \A o \in Present(l) : o.id <= e.id

\* e was added before every other entry of l
AddedFirst(e, l) == e \in Present(l) /\ \A o \in Present(l) : o.id >= e.id

\* C31: GetLatest returns the entry added last among those present, or
\* nil if the container is empty; Add(e) makes e the front entry, the one
\* GetLatest returns, and makes the container one entry longer.
GetLatestIsLastAdded ==
    /\ [](sc.ret.op = "GetLatest"
            => IF sc.snapshotList = <<>> THEN sc.ret.val = NoSnapshot
               ELSE AddedLast(sc.ret.val, sc.snapshotList))
    /\ [][sc'.ret.op = "Add"
            => /\ Len(sc'.snapshotList) = Len(sc.snapshotList) + 1
               /\ Head(sc'.snapshotList) = [id |-> sc'.made, ts |-> sc'.ret.ts]
               /\ Tail(sc'.snapshotList) = sc.snapshotList
               /\ AddedLast(Head(sc'.snapshotList), sc'.snapshotList)]_vars
    /\ [][(sc.ret.op = "Add" /\ sc'.ret.op = "GetLatest")
            => sc'.ret.val = [id |-> sc.made, ts |-> sc.ret.ts]]_vars

WitnessC31 ==
    /\ sc.ret.op = "GetLatest" /\ sc.made = 3
    /\ Len(sc.snapshotList) = 2 /\ sc.ret.val.id = 3

\* C32: RemoveOldest removes one entry, the back one, which is the entry
\* added first among those present, and leaves the others in their order;
\* on an empty container it changes nothing.
RemoveOldestRemovesBack ==
    [][sc'.ret.op = "RemoveOldest"
         => IF sc.snapshotList = <<>> THEN sc'.snapshotList = <<>>
            ELSE /\ sc'.snapshotList
                        = SubSeq(sc.snapshotList, 1, Len(sc.snapshotList) - 1)
                 /\ AddedFirst(sc.snapshotList[Len(sc.snapshotList)],
                               sc.snapshotList)]_vars

WitnessC32 ==
    /\ sc.ret.op = "RemoveOldest" /\ sc.made = 3
    /\ Len(sc.snapshotList) = 2 /\ sc.snapshotList[1].id = 3


\* ------------------------------------------------------------------------
\* Claims about the free list and the shape of the list
\* ------------------------------------------------------------------------
\* does following next from p arrive at t
RECURSIVE Reaches(_, _, _, _)
Reaches(v, p, t, fuel) ==
    IF p = t THEN TRUE
    ELSE IF p = NoNode \/ fuel = 0 THEN FALSE
         ELSE Reaches(v, node[v][p].next, t, fuel - 1)

\* the nodes from p, following next, up to but excluding t
RECURSIVE NodesUpTo(_, _, _, _)
NodesUpTo(v, p, t, fuel) ==
    IF p = t \/ p = NoNode \/ fuel = 0 THEN {}
    ELSE {p} \cup NodesUpTo(v, node[v][p].next, t, fuel - 1)

\* the free list of v: from the free pointer up to but excluding the head
FreeNodes(v) == NodesUpTo(v, free[v], head[v], Len(node[v]))

\* the nodes a consumer can read: the head and what follows it, up to and
\* including the node the producer is linking in
LiveNodes(v) == NodesUpTo(v, head[v], NoNode, Len(node[v]))

\* this step is an Enqueue on v that takes its node from the free list
Recycles(v) ==
    /\ ppc = "idle" /\ ppc' = "store" /\ pvb' = v
    /\ Len(node'[v]) = Len(node[v])

\* C33: under every interleaving of one producer and one consumer, the
\* node an Enqueue takes from the free list is strictly behind the head
\* (the head is reached from it and is not it) and is none of the nodes
\* the consumer can read; when it is linked in again it carries the new
\* mutation and no next link; the free list and the nodes the consumer can
\* read never share a node, and what a vbucket has delivered is what was
\* enqueued on it, in order, never the earlier payload of a recycled node.
RecycleOnlyBehindHead ==
    /\ [](\A v \in Vbuckets :
             /\ FreeNodes(v) \cap LiveNodes(v) = {}
             /\ Reaches(v, free[v], head[v], Len(node[v]))
             /\ IsPrefix(deliv[v] \o InHand(v), enq[v]))
    /\ [][\A v \in Vbuckets :
             Recycles(v) =>
                 LET n == node'[v][tail[v]].next
                 IN  /\ n = free[v] /\ n # head[v]
                     /\ n \in FreeNodes(v) /\ n \notin LiveNodes(v)
                     /\ ((cpc # "idle" /\ cvb = v)
                            => n \notin {head[v], node[v][head[v]].next})
                     /\ node'[v][n].next = NoNode
                     /\ node'[v][n].mutation.id = Len(enq[v]) + 1
                     /\ \A i \in 1 .. Len(enq[v]) :
                            enq[v][i] # node'[v][n].mutation]_vars

\* an Enqueue has taken a node from the free list while the consumer is
\* between reading head.next.mutation and moving the head
WitnessC33 ==
    \E v \in Vbuckets :
        /\ ppc = "store" /\ pvb = v
        /\ node[v][tail[v]].next < Len(node[v])
        /\ cpc = "d_store" /\ cvb = v


\* C34: in every reachable state, every node on a vbucket's free list (from
\* the free pointer up to but excluding the head) holds no mutation.
FreeNodesHoldNoMutation ==
    \A v \in Vbuckets :
        \A n \in FreeNodes(v) : node[v][n].mutation = Nil


\* the mutations unlinked from v so far, delivered or in the consumer's hand
Unlinked(v) == deliv[v] \o InHand(v)

\* C35: in every reachable state of every vbucket, head and tail are not
\* nil, tail is reached from head by next links and head from the free
\* pointer, head = tail exactly when every mutation whose Enqueue has
\* stored the tail has been unlinked, and the payload of the head node is
\* nil or the mutation unlinked last, which is none of those still queued
\* and is never what a later dequeue returns.
HeadIsSentinel ==
    /\ [](\A v \in Vbuckets :
             /\ head[v] # NoNode /\ tail[v] # NoNode
             /\ Reaches(v, head[v], tail[v], Len(node[v]))
             /\ Reaches(v, free[v], head[v], Len(node[v]))
             /\ (head[v] = tail[v]) <=> (Len(enq[v]) = Len(Unlinked(v)))
             /\ (head[v] = tail[v]) <=> (Contents(v) = <<>>)
             /\ HeadMutation(v)
                    = IF Unlinked(v) = <<>> THEN Nil
                      ELSE Unlinked(v)[Len(Unlinked(v))]
             /\ \A i \in 1 .. Len(Contents(v)) :
                    Contents(v)[i] # HeadMutation(v))
    /\ [][\A v \in Vbuckets :
             (cvb = v /\ cpc \in {"d_check", "u_check"}
                  /\ cpc' \in {"d_store", "u_store"})
                 => cm' # HeadMutation(v)]_vars

\* the head has moved off the first node twice and the queue is empty again
WitnessC35 ==
    \E v \in Vbuckets :
        /\ head[v] = tail[v] /\ Len(deliv[v]) = 2
        /\ HeadMutation(v) = deliv[v][2] /\ NoOperationInFlight


\* ========================================================================
\* The cluster info cache and the command goroutines that use it.
\* cinfo is a record:
\*   holders   the goroutines inside cInfoCache.Lock() .. Unlock()
\*   g         per goroutine, a record:
\*     cmd       its command
\*     plan      the calls it has still to make, in the order of its code:
\*                 "prep"         addPartnInfoToProtoInst, once per instance
\*                 "vbs"          getAllVbucketsInCluster
\*                 "addrs"        getAllProjectorAddrs
\*                 "flogAddrs"    getAllProjectorAddrs in getFailoverLogs
\*                 "flogs"        client.GetFailoverLogs, a request
\*                 "addrsForVbs"  getProjAddrsForVbuckets
\*                 "net"          rh.Run(): the requests to the producers
\*     pc        "start" (between two calls), "locked" (after Lock),
\*               "fetched" (after Fetch), "done", "crashed"
\*     dropped   an error was met and execution went on without it
\*     failed    an error was met
\*     resp      the message written to respCh, or "none"
\* ========================================================================
MaxWorkers == 2       \* command goroutines running at once
MaxInsts == 1         \* index instances of a command range over 0..MaxInsts

Workers == 1 .. MaxWorkers

\* the calls that take the cache's lock
CacheCalls == {"prep", "vbs", "addrs", "flogAddrs", "addrsForVbs"}

\* n times "prep": convertIndexListToProto calls addPartnInfoToProtoInst
\* for each instance of the list
RECURSIVE Preps(_)
Preps(n) == IF n = 0 THEN <<>> ELSE <<"prep">> \o Preps(n - 1)

\* the calls of a command's goroutine, from its code; initial: the restart
\* timestamp of an OPEN_STREAM is nil and makeRestartTsForVbs asks the
\* producers for their failover logs
PlanOf(cmd, n, initial) ==
    CASE cmd = "OPEN_STREAM" ->
             Preps(n) \o <<"vbs">>
                 \o (IF initial THEN <<"flogAddrs", "flogs">> ELSE <<>>)
                 \o <<"addrs", "net">>
      [] cmd = "ADD_INDEX_LIST_TO_STREAM" ->
             <<"addrs">> \o Preps(n) \o <<"net">>
      [] cmd = "KV_SENDER_RESTART_VBUCKETS" -> <<"addrsForVbs", "net">>
      [] OTHER -> <<"addrs", "net">>

NewWorker(cmd, n, initial) ==
    [cmd |-> cmd, plan |-> PlanOf(cmd, n, initial), pc |-> "start",
     dropped |-> FALSE, failed |-> FALSE, resp |-> "none"]

\* the goroutines of the commands in hand; an OPEN_STREAM with no
\* instance answers before it makes any call and is not one of them
CacheInit ==
    /\ NewAtomicMutationQueue(0) /\ sender = NoSender /\ kv = NoKVSender
    /\ sc = NoContainer
    /\ \E f \in [Workers -> Commands \X (0 .. MaxInsts) \X BOOLEAN] :
           /\ \A w \in Workers :
                  /\ f[w][1] = "OPEN_STREAM" => f[w][2] >= 1
                  /\ f[w][1] # "OPEN_STREAM" => ~f[w][3]
                  /\ f[w][1] \notin {"OPEN_STREAM", "ADD_INDEX_LIST_TO_STREAM"}
                         => f[w][2] = 0
           /\ cinfo = [holders |-> {},
                       g |-> [w \in Workers |->
                                 NewWorker(f[w][1], f[w][2], f[w][3])]]

\* cInfoCache.Lock() returns only when no goroutine is inside
LockFree == cinfo.holders = {}

\* a return that leaves the lock held
HeldOnReturn(w) == cinfo.holders

\* defer cInfoCache.Unlock(): the lock is released when the function
\* returns or panics
ReleasedOnReturn(w) == cinfo.holders \ {w}

\* what c.CrashOnError(err) does with a non-nil error
CrashOnErrorOutcomes == {"panics", "returns"}

\* the call at the head of w's plan: Lock()
CacheLock(w) ==
    /\ cinfo.g[w].pc = "start" /\ cinfo.g[w].plan # <<>>
    /\ Head(cinfo.g[w].plan) \in CacheCalls
    /\ LockFree
    /\ cinfo' = [cinfo EXCEPT !.holders = @ \cup {w},
                              !.g[w].pc = "locked"]
    /\ UNCHANGED <<queue, sender, kv, sc>>

\* a function of the command's goroutine returns an error: the goroutine
\* writes MsgError with severity FATAL to respCh and returns
RespondsFatal(w) ==
    cinfo' = [cinfo EXCEPT !.holders = ReleasedOnReturn(w),
                           !.g[w].pc = "done", !.g[w].failed = TRUE,
                           !.g[w].resp = MsgErrorFatal]

\* addPartnInfoToProtoInst meets an error: c.CrashOnError(err), after
\* which the function has no way to return the error
CrashOnError(w, outcome, next) ==
    IF outcome = "panics"
    THEN cinfo' = [cinfo EXCEPT !.holders = ReleasedOnReturn(w),
                                !.g[w].pc = "crashed",
                                !.g[w].failed = TRUE]
    ELSE cinfo' = [cinfo EXCEPT !.g[w].pc = next,
                                !.g[w].failed = TRUE,
                                !.g[w].dropped = TRUE]

\* cInfoCache.Fetch() and the test of its error
CacheFetch(w, ok, outcome) ==
    /\ cinfo.g[w].pc = "locked"
    /\ IF ok THEN cinfo' = [cinfo EXCEPT !.g[w].pc = "fetched"]
       ELSE IF Head(cinfo.g[w].plan) = "prep"
            THEN CrashOnError(w, outcome, "fetched")
            ELSE RespondsFatal(w)
    /\ UNCHANGED <<queue, sender, kv, sc>>

\* the function returns without an error
CallReturns(w) ==
    cinfo' = [cinfo EXCEPT !.holders = ReleasedOnReturn(w),
                           !.g[w].pc = "start",
                           !.g[w].plan = Tail(@)]

\* the reads of the fetched cache (GetNodesByBucket, GetVBuckets,
\* GetNodesByServiceType, GetServiceAddress, GetCurrentNode), the test of
\* their errors, and the return
CacheRead(w, ok, outcome) ==
    /\ cinfo.g[w].pc = "fetched"
    /\ IF ok THEN CallReturns(w)
       ELSE IF Head(cinfo.g[w].plan) = "prep"
            THEN IF outcome = "panics"
                 THEN CrashOnError(w, outcome, "crashed")
                 ELSE cinfo' = [cinfo EXCEPT
                                   !.holders = ReleasedOnReturn(w),
                                   !.g[w].pc = "start",
                                   !.g[w].plan = Tail(@),
                                   !.g[w].failed = TRUE,
                                   !.g[w].dropped = TRUE]
            ELSE RespondsFatal(w)
    /\ UNCHANGED <<queue, sender, kv, sc>>

\* getFailoverLogs: client.GetFailoverLogs on the producers, after
\* getAllProjectorAddrs has returned; on error makeInitialTs and
\* makeRestartTsForVbs return it
FailoverLogs(w, ok) ==
    /\ cinfo.g[w].pc = "start" /\ cinfo.g[w].plan # <<>>
    /\ Head(cinfo.g[w].plan) = "flogs"
    /\ IF ok THEN cinfo' = [cinfo EXCEPT !.g[w].plan = Tail(@)]
       ELSE cinfo' = [cinfo EXCEPT !.g[w].pc = "done",
                                   !.g[w].failed = TRUE,
                                   !.g[w].resp = MsgErrorFatal]
    /\ UNCHANGED <<queue, sender, kv, sc>>

\* rh.Run() and the final message: the requests to the producers and what
\* the command makes of their answers
Requests(w, msg) ==
    /\ cinfo.g[w].pc = "start" /\ cinfo.g[w].plan # <<>>
    /\ Head(cinfo.g[w].plan) = "net"
    /\ msg = MsgRollback
           => cinfo.g[w].cmd \in {"OPEN_STREAM", "KV_SENDER_RESTART_VBUCKETS"}
    /\ msg = MsgKVStreamRepair
           => cinfo.g[w].cmd = "KV_SENDER_RESTART_VBUCKETS"
    /\ cinfo' = [cinfo EXCEPT !.g[w].pc = "done",
                              !.g[w].plan = Tail(@),
                              !.g[w].failed = @ \/ msg = MsgErrorFatal,
                              !.g[w].resp = msg]
    /\ UNCHANGED <<queue, sender, kv, sc>>

CacheNext ==
    \E w \in Workers :
        \/ CacheLock(w)
        \/ \E ok \in BOOLEAN, o \in CrashOnErrorOutcomes : CacheFetch(w, ok, o)
        \/ \E ok \in BOOLEAN, o \in CrashOnErrorOutcomes : CacheRead(w, ok, o)
        \/ \E ok \in BOOLEAN : FailoverLogs(w, ok)
        \/ \E msg \in {MsgSuccess, MsgRollback, MsgKVStreamRepair,
                       MsgErrorFatal} : Requests(w, msg)

CacheSpec == CacheInit /\ [][CacheNext]_vars

\* ------------------------------------------------------------------------
\* Claims about the cache's lock and the errors of a command
\* ------------------------------------------------------------------------
\* this step is a request of w to a producer
MakesRequest(w) ==
    /\ cinfo.g[w].pc = "start" /\ cinfo.g[w].plan # <<>>
    /\ Head(cinfo.g[w].plan) \in {"flogs", "net"}
    /\ cinfo'.g[w] # cinfo.g[w]

\* C36: with several command goroutines running, every goroutine that has
\* fetched or is reading the cache holds its lock, at most one goroutine
\* holds the lock, a goroutine between two calls or at its end (after a
\* success, an error return or a crash) does not hold it, and no goroutine
\* holds it in a step that makes a request to a producer.
CacheUsedUnderLock ==
    /\ [](\A w \in Workers :
             /\ cinfo.g[w].pc \in {"locked", "fetched"} => w \in cinfo.holders
             /\ cinfo.g[w].pc \in {"start", "done", "crashed"}
                    => w \notin cinfo.holders)
    /\ [](Cardinality(cinfo.holders) <= 1)
    /\ [][\A w \in Workers : MakesRequest(w) => w \notin cinfo.holders]_vars

\* one goroutine has returned from an error inside the lock and another
\* one is now inside it
WitnessC36 ==
    \E w, x \in Workers :
        /\ cinfo.g[w].pc = "done" /\ cinfo.g[w].resp = MsgErrorFatal
        /\ Len(cinfo.g[w].plan) >= 2
        /\ cinfo.g[x].pc = "fetched" /\ x \in cinfo.holders

\* C37: every error of a command, a failed fetch or lookup while the
\* instances of OPEN_STREAM or ADD_INDEX_LIST_TO_STREAM are prepared
\* included, ends in MsgError with severity FATAL on respCh, and no
\* goroutine crashes.
EveryErrorIsReportedFatal ==
    \A w \in Workers :
        /\ cinfo.g[w].pc # "crashed"
        /\ (cinfo.g[w].pc = "done" /\ cinfo.g[w].failed)
               => cinfo.g[w].resp = MsgErrorFatal

\* the same without the preparation of the instances
OtherErrorsAreReportedFatal ==
    \A w \in Workers :
        (cinfo.g[w].pc = "done" /\ cinfo.g[w].failed /\ ~cinfo.g[w].dropped)
            => cinfo.g[w].resp = MsgErrorFatal


\* C38: on KV_SENDER_RESTART_VBUCKETS a topic-missing error is not retried:
\* when a call of fn in which a producer answered ErrorTopicMissing
\* returns, Run calls fn no more and MsgKVStreamRepair is the message for
\* respCh.
RestartTopicMissingIsNotRetried ==
    [][(/\ sender.cmd = "KV_SENDER_RESTART_VBUCKETS"
        /\ sender.pc = "fanout" /\ sender'.pc # "fanout"
        /\ "topicMissing" \in sender.seen)
           => /\ sender'.pc = "respond"
              /\ FinalMessages(sender') = <<MsgKVStreamRepair>>]_vars


\* C39: KV_SENDER_RESTART_VBUCKETS writes MsgRollback exactly when the
\* rollback timestamps got for the bucket, from every producer in every
\* attempt so far, hold a vbno of the restart timestamp; a call of fn that
\* ends with an error and with rollback timestamps that hold only other
\* vbnos is followed by another call while attempts are left.
RestartRollsBackOnlyForItsVbnos ==
    /\ []((Done /\ sender.cmd = "KV_SENDER_RESTART_VBUCKETS")
              => /\ (MsgRollback \in {sender.respCh[k] :
                                         k \in 1 .. Len(sender.respCh)})
                         <=> (sender.rollbacks \cap sender.vbnos # {})
                 /\ (sender.rollbacks \cap sender.vbnos # {})
                         => sender.respCh = <<MsgRollback>>)
    /\ [][(/\ sender.cmd = "KV_SENDER_RESTART_VBUCKETS"
           /\ sender.pc = "fanout" /\ sender'.pc # "fanout"
           /\ sender.rollbacks \cap sender.vbnos = {}
           /\ sender.err # NilErr
           /\ sender.r + 1 < MAX_KV_REQUEST_RETRY)
              => sender'.pc = "call" /\ ~sender'.rollback]_vars

\* every attempt was made although a producer asked for the rollback of a
\* vbno that is not being restarted
WitnessC39 ==
    /\ Done /\ sender.cmd = "KV_SENDER_RESTART_VBUCKETS"
    /\ sender.vbnos = {1} /\ sender.rollbacks = {2}
    /\ sender.rounds = MAX_KV_REQUEST_RETRY
    /\ sender.respCh = <<MsgErrorFatal>>


\* C40: after KV_SENDER_SHUTDOWN the loop sends one MsgSuccess on
\* supvCmdch and leaves: it starts no goroutine for the shutdown, and once
\* it has left, no command sent is received, handed to a handler or
\* acknowledged and no goroutine is started, while the goroutines already
\* running still return; the loop also leaves when it finds supvCmdch
\* closed, and it leaves for no other reason.
ShutdownLeavesTheLoop ==
    /\ [][(kv.pc = "handle" /\ kv.cmd = "KV_SENDER_SHUTDOWN"
              /\ kv'.pc # kv.pc)
             => /\ kv'.pc = "ackExit" /\ kv'.spawned = kv.spawned
                /\ kv'.acks = kv.acks]_vars
    /\ [][(kv.pc = "ackExit" /\ kv'.pc # kv.pc)
             => /\ kv'.pc = "exit" /\ kv'.acks = kv.acks + 1
                /\ kv'.spawned = kv.spawned]_vars
    /\ [][kv.pc = "exit"
             => /\ kv'.pc = "exit" /\ kv'.acks = kv.acks
                /\ kv'.spawned = kv.spawned /\ kv'.cmd = "none"
                /\ kv'.running <= kv.running]_vars
    /\ []((kv.pc = "exit" /\ kv.running > 0) => ENABLED WorkerReturns)
    /\ []((kv.pc = "recv" /\ kv.closed) => ENABLED ReceivesClosed)
    /\ [][(kv.pc = "recv" /\ kv.closed /\ kv'.pc # kv.pc)
             => kv'.pc = "exit"]_vars
    /\ [](kv.pc = "exit" <=> kv.left \in {"shutdown", "closed"})

\* a command was sent after the shutdown and a goroutine started before it
\* has returned since
WitnessC40 ==
    /\ kv.pc = "exit" /\ kv.left = "shutdown" /\ kv.spc = "wait"
    /\ kv.sent = kv.acks + 1 /\ kv.spawned = 1 /\ kv.running = 0

\* the loop has left on finding supvCmdch closed
WitnessC40Closed ==
    /\ kv.pc = "exit" /\ kv.left = "closed" /\ kv.spawned >= 1

====
